---- MODULE Spec2Model ----
(***************************************************************************)
(* HexCraft: the 2D hex pixel-art editor (src/unnamed/part_001) and the    *)
(* 3D voxel hex-world builder (src/app.js).  One session runs one of the   *)
(* two applications; `app` says which.  Every action is one event handler  *)
(* of the source, run to completion (the applications are single-threaded  *)
(* and event-driven).                                                      *)
(*                                                                         *)
(* A JavaScript Map is modelled as a function from keys to payloads.  The  *)
(* string key `${col},${row}` (2D) is the pair <<col, row>> and the string *)
(* key `${q},${r},${y}` (3D) is the triple <<q, r, y>>: joining integers   *)
(* with commas is injective and key.split(',').map(Number) is its inverse. *)
(* historyIndex is 0-based as in the source; history[historyIndex + 1] is  *)
(* the snapshot it designates in the 1-based sequence.                     *)
(***************************************************************************)
EXTENDS Integers, Sequences, FiniteSets, TLC

VARIABLES
    app,             \* "none" before init(), then "2d" or "3d"
    gridSize,        \* 2D CONFIG.gridSize
    hexCells,        \* 2D STATE.hexCells
    currentTool,     \* 2D STATE.currentTool
    currentColor,    \* 2D STATE.currentColor
    recentColors,    \* 2D STATE.recentColors
    isDrawing,       \* 2D STATE.isDrawing
    isPanning,       \* 2D STATE.isPanning
    blocks,          \* 3D STATE.blocks
    blockMeshes,     \* 3D blockMeshes: key -> mesh.userData
    scene,           \* 3D the block meshes that are children of the scene
    animations,      \* 3D the animations list
    hoveredBlock,    \* 3D STATE.hoveredBlock
    currentMaterial, \* 3D STATE.currentMaterial
    isPlacing,       \* 3D STATE.isPlacing
    brushSize,       \* 3D STATE.brushSize
    mouse,           \* 3D pointer/camera ray, by name (see Rays)
    history,         \* STATE.history
    historyIndex,    \* STATE.historyIndex
    shared,          \* positions of history holding the very Map object the live store is
    lastOp,          \* log: the last operation that touched store or history
    cellsBefore,     \* log: the store before that operation
    editsOnly,       \* log: so far every pointer-down edit changed the store, and
                     \*      no undo, redo or clear has taken effect
    pruned,          \* log: the latest saveState discarded redo snapshots
    evicted,         \* log: some saveState has removed the oldest snapshot
    fill,            \* 2D: the frame of the floodFill call in progress or last returned
                     \*     (only the specification that steps through the loop uses it)
    conv,            \* the arguments and the result of the latest coordinate conversion
                     \*     (only the specification of the conversions uses it)
    worker,          \* service worker: its state ("parsed", "installing", "installed",
                     \*     "activating", "activated")
    step,            \* service worker: the pending callback of the install or activate chain
    controller,      \* service worker: the version that controls the open pages
    skipWaiting,     \* service worker: self.skipWaiting() has been called
    caches,          \* service worker: cache storage, name -> URLs with a stored response
    cacheNames,      \* service worker: the names the activate listener deletes
    event,           \* service worker: the fetch event being handled, or the last one
    puts             \* service worker: the cache.put calls of the fetch handler under way

vars == <<app, gridSize, hexCells, currentTool, currentColor, recentColors, isDrawing,
          isPanning, blocks, blockMeshes, scene, animations, hoveredBlock, currentMaterial,
          isPlacing, brushSize, mouse,
          history, historyIndex, shared, lastOp, cellsBefore, editsOnly, pruned, evicted, fill,
          conv, worker, step, controller, skipWaiting, caches, cacheNames, event, puts>>

vars2D == <<gridSize, hexCells, currentTool, currentColor, recentColors, isDrawing, isPanning>>
vars3D == <<blocks, blockMeshes, scene, animations, hoveredBlock, currentMaterial, isPlacing,
            brushSize, mouse>>
varsLog == <<lastOp, cellsBefore, editsOnly, pruned, evicted, fill>>
varsWorker == <<worker, step, controller, skipWaiting, caches, cacheNames, event, puts>>
varsApp == <<app, vars2D, vars3D, history, historyIndex, shared, varsLog, conv>>

-----------------------------------------------------------------------------
(* Bounds of the model *)

\* The grid size chosen in the settings dialog and the number of fill clicks in
\* the sessions that step through the floodFill loop.
FillGridSize == 32
MaxFillClicks == 2

\* The grid size chosen in the settings dialog in the sessions that paint
\* every cell of the grid.
PaintGridSize == 3

\* The general specification offers an edit only while the history holds
\* fewer snapshots than this.
MaxSnapshots == 3

\* CONFIG.gridSize at the start of the modelled 2D session (20 in the source,
\* any slider value after applySettings).
InitGridSize == 2

-----------------------------------------------------------------------------
(* Program constants *)

maxHistorySteps == 50
HistoryLimit3D == 50
FillCap == 1000
maxHeight == 20
MaterialCount == 12
hexRadius == 1

Undefined == "undefined"
\* null: STATE.hoveredBlock with no hit, and an empty intersection list.
Null == [obj |-> "none"]
EmptyMap == [k \in {} |-> Undefined]

DefaultColor == "#6366f1"
OtherColor == "#ef4444"
Colors == {DefaultColor, OtherColor}
Tools == {"draw", "erase", "fill"}

-----------------------------------------------------------------------------
(* Map operations *)

MapHas(m, k) == k \in DOMAIN m
MapGet(m, k) == IF k \in DOMAIN m THEN m[k] ELSE Undefined
MapSet(m, k, v) == [x \in (DOMAIN m) \cup {k} |-> IF x = k THEN v ELSE m[x]]
MapDelete(m, k) == [x \in (DOMAIN m) \ {k} |-> m[x]]
MapSize(m) == Cardinality(DOMAIN m)

\* JavaScript truthiness of a colour value.
Truthy(v) == v # Undefined /\ v # ""

\* A write to the live store object is seen through every history position
\* that holds the same object.
WriteThrough(h, sh, m) == [i \in DOMAIN h |-> IF i \in sh THEN m ELSE h[i]]

-----------------------------------------------------------------------------
(* 2D: HexGrid.getNeighbors *)

\* Faulty variant of IsOddCol: every column is taken as even.
IsOddColNever(col) == FALSE

IsOddCol(col) == col % 2 # 0

NeighborCandidates(col, row) ==
    << <<col + 1, IF IsOddCol(col) THEN row ELSE row - 1>>,
       <<col + 1, IF IsOddCol(col) THEN row + 1 ELSE row>>,
       <<col - 1, IF IsOddCol(col) THEN row ELSE row - 1>>,
       <<col - 1, IF IsOddCol(col) THEN row + 1 ELSE row>>,
       <<col, row - 1>>,
       <<col, row + 1>> >>

\* The cells of the grid.
GridCells(g) == (0..(g - 1)) \X (0..(g - 1))

InGrid(hex, g) == hex[1] >= 0 /\ hex[1] < g /\ hex[2] >= 0 /\ hex[2] < g

\* Faulty variant of KeepInGrid: only the lower ends of the ranges are tested.
KeepNonNegative(n, g) == n[1] >= 0 /\ n[2] >= 0

KeepInGrid(n, g) == InGrid(n, g)

getNeighbors(col, row, g) ==
    LET Keep(n) == KeepInGrid(n, g)
    IN SelectSeq(NeighborCandidates(col, row), Keep)

-----------------------------------------------------------------------------
(* 2D: floodFill, the loop of lines 420-444 *)

\* Faulty variant of visitedHas: a key is never found in the set.
visitedHasNever(visited, key) == FALSE

\* visited.has(key), line 424.
visitedHas(visited, key) == key \in visited

\* Faulty variant of FloodStep: a cell of another payload is left alone but the
\* traversal goes on through it.
FloodStepThroughBoundaries(cells, visited, stack, filled, targetColor, fillColor, g) ==
    LET cur == stack[Len(stack)]
        rest == SubSeq(stack, 1, Len(stack) - 1)
        seen == visited \cup {cur}
        Fresh(n) == ~visitedHas(seen, n)
        pushed == rest \o SelectSeq(getNeighbors(cur[1], cur[2], g), Fresh)
    IN IF visitedHas(visited, cur)
       THEN [cells |-> cells, visited |-> visited, stack |-> rest, filled |-> filled,
             cur |-> cur, processed |-> FALSE]
       ELSE IF MapGet(cells, cur) # targetColor
            THEN [cells |-> cells, visited |-> seen, stack |-> pushed, filled |-> filled,
                  cur |-> cur, processed |-> TRUE]
            ELSE [cells |-> IF Truthy(fillColor) THEN MapSet(cells, cur, fillColor)
                            ELSE MapDelete(cells, cur),
                  visited |-> seen, stack |-> pushed, filled |-> filled + 1,
                  cur |-> cur, processed |-> TRUE]

\* One iteration of the while loop, lines 421-443: the store, the visited set,
\* the stack and the counter it leaves; `processed` says whether the popped
\* coordinate got past the visited check.
FloodStep(cells, visited, stack, filled, targetColor, fillColor, g) ==
    LET cur == stack[Len(stack)]
        rest == SubSeq(stack, 1, Len(stack) - 1)
        seen == visited \cup {cur}
    IN IF visitedHas(visited, cur)
       THEN [cells |-> cells, visited |-> visited, stack |-> rest, filled |-> filled,
             cur |-> cur, processed |-> FALSE]
       ELSE IF MapGet(cells, cur) # targetColor
            THEN [cells |-> cells, visited |-> seen, stack |-> rest, filled |-> filled,
                  cur |-> cur, processed |-> TRUE]
            ELSE LET painted == IF Truthy(fillColor)
                                THEN MapSet(cells, cur, fillColor)
                                ELSE MapDelete(cells, cur)
                     Fresh(n) == ~visitedHas(seen, n)
                     pushed == rest \o SelectSeq(getNeighbors(cur[1], cur[2], g), Fresh)
                 IN [cells |-> painted, visited |-> seen, stack |-> pushed,
                     filled |-> filled + 1, cur |-> cur, processed |-> TRUE]

\* Faulty variant of FloodContinues: the counter is compared with <=.
FloodContinuesOneMore(stack, filled) == Len(stack) > 0 /\ filled <= FillCap

\* The loop condition, line 420.
FloodContinues(stack, filled) == Len(stack) > 0 /\ filled < FillCap

RECURSIVE FloodLoop(_, _, _, _, _, _, _)
FloodLoop(cells, visited, stack, filled, targetColor, fillColor, g) ==
    IF ~FloodContinues(stack, filled)
    THEN cells
    ELSE LET n == FloodStep(cells, visited, stack, filled, targetColor, fillColor, g)
         IN FloodLoop(n.cells, n.visited, n.stack, n.filled, targetColor, fillColor, g)

\* Faulty variant of floodFill: the target is read from the start cell of the
\* store instead of being the caller's argument.
floodFillTargetFromStore(cells, startCol, startRow, targetColor, fillColor, g) ==
    LET target == MapGet(cells, <<startCol, startRow>>)
    IN IF target = fillColor
       THEN cells
       ELSE FloodLoop(cells, {}, << <<startCol, startRow>> >>, 0, target, fillColor, g)

floodFill(cells, startCol, startRow, targetColor, fillColor, g) ==
    IF targetColor = fillColor
    THEN cells
    ELSE FloodLoop(cells, {}, << <<startCol, startRow>> >>, 0, targetColor, fillColor, g)

\* The locals of a floodFill call: pc is "idle" before any call, "loop" between
\* iterations and "done" after the return.  tested, twice and iterations are a
\* log: the coordinates that got past the visited check, whether one of them did
\* so a second time, and the number of iterations so far.
FillFrame(pc, start, target, color, visited, stack, filled, tested, twice, iterations) ==
    [pc |-> pc, start |-> start, target |-> target, color |-> color, visited |-> visited,
     stack |-> stack, filled |-> filled, tested |-> tested, twice |-> twice,
     iterations |-> iterations]

NoFill == FillFrame("idle", <<0, 0>>, Undefined, Undefined, {}, <<>>, 0, {}, FALSE, 0)

-----------------------------------------------------------------------------
(* 2D: drawAtPosition.  `hex` is what pixelToHex returns for the pointer.  *)

\* Faulty variant of drawAtPosition: the tool is applied without the range check.
drawAtPositionUnchecked(cells, hex, tool, color, g) ==
    CASE tool = "draw" ->
            IF MapGet(cells, hex) # color THEN MapSet(cells, hex, color) ELSE cells
      [] tool = "erase" ->
            IF MapHas(cells, hex) THEN MapDelete(cells, hex) ELSE cells
      [] tool = "fill" ->
            floodFill(cells, hex[1], hex[2], MapGet(cells, hex), color, g)
      [] OTHER -> cells

\* Faulty variant of drawAtPosition: the erase tool empties the store.
drawAtPositionEraseClears(cells, hex, tool, color, g) ==
    IF ~InGrid(hex, g)
    THEN cells
    ELSE CASE tool = "draw" ->
                IF MapGet(cells, hex) # color THEN MapSet(cells, hex, color) ELSE cells
           [] tool = "erase" ->
                IF MapHas(cells, hex) THEN EmptyMap ELSE cells
           [] tool = "fill" ->
                floodFill(cells, hex[1], hex[2], MapGet(cells, hex), color, g)
           [] OTHER -> cells

drawAtPosition(cells, hex, tool, color, g) ==
    IF ~InGrid(hex, g)
    THEN cells
    ELSE CASE tool = "draw" ->
                IF MapGet(cells, hex) # color THEN MapSet(cells, hex, color) ELSE cells
           [] tool = "erase" ->
                IF MapHas(cells, hex) THEN MapDelete(cells, hex) ELSE cells
           [] tool = "fill" ->
                floodFill(cells, hex[1], hex[2], MapGet(cells, hex), color, g)
           [] OTHER -> cells

-----------------------------------------------------------------------------
(* 2D: history *)

\* Faulty variant of NewMapAliases: the Map stored or read is the live store object.
SameMapAliases(pos) == {pos}

\* `new Map(STATE.hexCells)` / `new Map(STATE.history[i])`: a fresh object, so the
\* history position `pos` it is stored at or read from does not alias the live store.
NewMapAliases(pos) == {}

\* Array.prototype.shift on the positions that alias the live store.
ShiftAliases(sh) == {i - 1 : i \in sh \ {1}}

\* Faulty variant of saveState2D: the list is never shortened to the limit.
saveStateUnbounded2D(h, idx, sh, cells) ==
    LET h1 == IF idx < Len(h) - 1 THEN SubSeq(h, 1, idx + 1) ELSE h
        sh1 == sh \cap (1..Len(h1))
        h2 == Append(h1, cells)
        sh2 == sh1 \cup NewMapAliases(Len(h2))
    IN [history |-> h2, historyIndex |-> idx + 1, shared |-> sh2,
        pruned |-> Len(h1) < Len(h), evicted |-> FALSE]

\* Faulty variant of saveState2D: the copy of the store is pushed twice.
saveStateTwice2D(h, idx, sh, cells) ==
    LET h1 == IF idx < Len(h) - 1 THEN SubSeq(h, 1, idx + 1) ELSE h
        sh1 == sh \cap (1..Len(h1))
        h2 == Append(Append(h1, cells), cells)
        sh2 == sh1 \cup NewMapAliases(Len(h2))
    IN [history |-> h2, historyIndex |-> idx + 2, shared |-> sh2,
        pruned |-> Len(h1) < Len(h), evicted |-> FALSE]

saveState2D(h, idx, sh, cells) ==
    LET h1 == IF idx < Len(h) - 1 THEN SubSeq(h, 1, idx + 1) ELSE h
        sh1 == sh \cap (1..Len(h1))
        h2 == Append(h1, cells)
        sh2 == sh1 \cup NewMapAliases(Len(h2))
    IN IF Len(h2) > maxHistorySteps
       THEN [history |-> Tail(h2), historyIndex |-> idx, shared |-> ShiftAliases(sh2),
             pruned |-> Len(h1) < Len(h), evicted |-> TRUE]
       ELSE [history |-> h2, historyIndex |-> idx + 1, shared |-> sh2,
             pruned |-> Len(h1) < Len(h), evicted |-> FALSE]

\* Faulty variant of snapshotCopy: the oldest snapshot is read whatever the index.
snapshotOldest(h, pos) == IF h = <<>> THEN EmptyMap ELSE h[1]

\* `new Map(STATE.history[i])`: a copy of the snapshot; new Map(undefined) is an
\* empty Map.
snapshotCopy(h, pos) == IF pos \in DOMAIN h THEN h[pos] ELSE EmptyMap

\* Faulty variants of the guards: undo allowed at the first snapshot, redo at the last.
undoEnabledAtFirst(idx) == idx >= 0

redoEnabledAtLast(h, idx) == idx <= Len(h) - 1

undoEnabled2D(idx) == idx > 0

redoEnabled2D(h, idx) == idx < Len(h) - 1

-----------------------------------------------------------------------------
(* 2D: event handlers *)

\* The cells a pointer event resolves to: a cell of the grid and two positions
\* outside it, one below the range and one above.
PointerHexes(g) == {<<0, 0>>, <<-1, 0>>, <<0, g>>}

\* A pointer-down that applies the active tool: lines 828-831 and 744-747.
BeginStroke(hex) ==
    LET sv == saveState2D(history, historyIndex, shared, hexCells)
        cells2 == drawAtPosition(hexCells, hex, currentTool, currentColor, gridSize)
    IN /\ isDrawing' = TRUE
       /\ hexCells' = cells2
       /\ history' = WriteThrough(sv.history, sv.shared, cells2)
       /\ historyIndex' = sv.historyIndex
       /\ shared' = sv.shared
       /\ lastOp' = IF cells2 # hexCells THEN "edit" ELSE "noopEdit"
       /\ cellsBefore' = hexCells
       /\ editsOnly' = (editsOnly /\ cells2 # hexCells)
       /\ pruned' = sv.pruned
       /\ evicted' = (evicted \/ sv.evicted)
       /\ UNCHANGED fill
       /\ UNCHANGED <<conv, varsWorker, app, gridSize, currentTool, currentColor, recentColors, isPanning>>
       /\ UNCHANGED vars3D

\* A pointer-move that applies the active tool: lines 846 and 787.
ContinueStroke(hex) ==
    LET cells2 == drawAtPosition(hexCells, hex, currentTool, currentColor, gridSize)
    IN /\ hexCells' = cells2
       /\ history' = WriteThrough(history, shared, cells2)
       /\ lastOp' = IF cells2 # hexCells THEN "edit" ELSE lastOp
       /\ cellsBefore' = IF cells2 # hexCells /\ lastOp \notin {"edit", "noopEdit"}
                         THEN hexCells ELSE cellsBefore
       /\ UNCHANGED <<conv, varsWorker, app, gridSize, currentTool, currentColor, recentColors, isDrawing, isPanning,
                      historyIndex, shared, editsOnly, pruned, evicted, fill>>
       /\ UNCHANGED vars3D

handleMouseDown(button, altKey, hex) ==
    /\ app = "2d"
    /\ IF button = 1 \/ (button = 0 /\ altKey)
       THEN /\ isPanning' = TRUE
            /\ UNCHANGED <<conv, varsWorker, app, gridSize, hexCells, currentTool, currentColor, recentColors, isDrawing,
                           history, historyIndex, shared>>
            /\ UNCHANGED <<vars3D, varsLog>>
       ELSE IF button = 0
            THEN BeginStroke(hex)
            ELSE UNCHANGED vars

\* Faulty variant of handleMouseMove: the tool is applied while drawing whether
\* or not the view is being panned.
handleMouseMoveIgnoresPanning(hex) ==
    /\ app = "2d"
    /\ IF isDrawing
       THEN ContinueStroke(hex)
       ELSE UNCHANGED vars

handleMouseMove(hex) ==
    /\ app = "2d"
    /\ IF isPanning
       THEN UNCHANGED vars
       ELSE IF isDrawing
            THEN ContinueStroke(hex)
            ELSE UNCHANGED vars

handleMouseUp ==
    /\ app = "2d"
    /\ isDrawing' = FALSE
    /\ isPanning' = FALSE
    /\ UNCHANGED <<conv, varsWorker, app, gridSize, hexCells, currentTool, currentColor, recentColors,
                   history, historyIndex, shared>>
    /\ UNCHANGED <<vars3D, varsLog>>

handleTouchStart(touches, hex) ==
    /\ app = "2d"
    /\ IF touches = 2
       THEN /\ isPanning' = TRUE
            /\ UNCHANGED <<conv, varsWorker, app, gridSize, hexCells, currentTool, currentColor, recentColors, isDrawing,
                           history, historyIndex, shared>>
            /\ UNCHANGED <<vars3D, varsLog>>
       ELSE IF touches = 1
            THEN BeginStroke(hex)
            ELSE UNCHANGED vars

\* scrollIntent: lines 775-785 found a fast vertical movement.
handleTouchMove(touches, hex, scrollIntent) ==
    /\ app = "2d"
    /\ IF touches = 2
       THEN UNCHANGED vars
       ELSE IF touches = 1 /\ isDrawing /\ ~isPanning
            THEN IF scrollIntent
                 THEN /\ isDrawing' = FALSE
                      /\ isPanning' = TRUE
                      /\ UNCHANGED <<conv, varsWorker, app, gridSize, hexCells, currentTool, currentColor, recentColors,
                                     history, historyIndex, shared>>
                      /\ UNCHANGED <<vars3D, varsLog>>
                 ELSE ContinueStroke(hex)
            ELSE UNCHANGED vars

handleTouchEnd(touches) ==
    /\ app = "2d"
    /\ IF touches = 0
       THEN /\ isDrawing' = FALSE
            /\ isPanning' = FALSE
            /\ UNCHANGED <<conv, varsWorker, app, gridSize, hexCells, currentTool, currentColor, recentColors,
                           history, historyIndex, shared>>
            /\ UNCHANGED <<vars3D, varsLog>>
       ELSE IF touches = 1
            THEN /\ isPanning' = FALSE
                 /\ UNCHANGED <<conv, varsWorker, app, gridSize, hexCells, currentTool, currentColor, recentColors, isDrawing,
                                history, historyIndex, shared>>
                 /\ UNCHANGED <<vars3D, varsLog>>
            ELSE UNCHANGED vars

undo2D ==
    /\ app = "2d"
    /\ IF undoEnabled2D(historyIndex)
       THEN /\ historyIndex' = historyIndex - 1
            /\ hexCells' = snapshotCopy(history, historyIndex' + 1)
            /\ shared' = NewMapAliases(historyIndex' + 1)
            /\ lastOp' = "undo"
            /\ cellsBefore' = hexCells
            /\ editsOnly' = FALSE
            /\ UNCHANGED <<conv, varsWorker, app, gridSize, currentTool, currentColor, recentColors, isDrawing, isPanning,
                           history, pruned, evicted, fill>>
            /\ UNCHANGED vars3D
       ELSE /\ lastOp' = "undoNoop"
            /\ cellsBefore' = hexCells
            /\ UNCHANGED <<conv, varsWorker, app, vars2D, vars3D, history, historyIndex, shared,
                           editsOnly, pruned, evicted, fill>>

redo2D ==
    /\ app = "2d"
    /\ IF redoEnabled2D(history, historyIndex)
       THEN /\ historyIndex' = historyIndex + 1
            /\ hexCells' = snapshotCopy(history, historyIndex' + 1)
            /\ shared' = NewMapAliases(historyIndex' + 1)
            /\ lastOp' = "redo"
            /\ cellsBefore' = hexCells
            /\ editsOnly' = FALSE
            /\ UNCHANGED <<conv, varsWorker, app, gridSize, currentTool, currentColor, recentColors, isDrawing, isPanning,
                           history, pruned, evicted, fill>>
            /\ UNCHANGED vars3D
       ELSE /\ lastOp' = "redoNoop"
            /\ cellsBefore' = hexCells
            /\ UNCHANGED <<conv, varsWorker, app, vars2D, vars3D, history, historyIndex, shared,
                           editsOnly, pruned, evicted, fill>>

clearCanvas ==
    /\ app = "2d"
    /\ IF MapSize(hexCells) = 0
       THEN UNCHANGED vars
       ELSE LET sv == saveState2D(history, historyIndex, shared, hexCells)
            IN /\ hexCells' = EmptyMap
               /\ history' = WriteThrough(sv.history, sv.shared, EmptyMap)
               /\ historyIndex' = sv.historyIndex
               /\ shared' = sv.shared
               /\ lastOp' = "clear"
               /\ cellsBefore' = hexCells
               /\ editsOnly' = FALSE
               /\ pruned' = sv.pruned
               /\ evicted' = (evicted \/ sv.evicted)
               /\ UNCHANGED fill
               /\ UNCHANGED <<conv, varsWorker, app, gridSize, currentTool, currentColor, recentColors, isDrawing, isPanning>>
               /\ UNCHANGED vars3D

selectTool(tool) ==
    /\ app = "2d"
    /\ currentTool' = tool
    /\ UNCHANGED <<conv, varsWorker, app, gridSize, hexCells, currentColor, recentColors, isDrawing, isPanning,
                   history, historyIndex, shared>>
    /\ UNCHANGED <<vars3D, varsLog>>

RecentLimit == 8

\* Faulty variant of addRecentColor: the earlier occurrence of the colour is kept.
addRecentColorKeepOld(recent, color) ==
    LET added == <<color>> \o recent
    IN IF Len(added) > RecentLimit THEN SubSeq(added, 1, Len(added) - 1) ELSE added

\* addRecentColor, lines 546-562: indexOf and splice, unshift, pop.
addRecentColor(recent, color) ==
    LET spliced == IF \E i \in DOMAIN recent : recent[i] = color
                   THEN LET index == CHOOSE i \in DOMAIN recent :
                                        /\ recent[i] = color
                                        /\ \A j \in 1..(i - 1) : recent[j] # color
                        IN SubSeq(recent, 1, index - 1) \o SubSeq(recent, index + 1, Len(recent))
                   ELSE recent
        added == <<color>> \o spliced
    IN IF Len(added) > RecentLimit THEN SubSeq(added, 1, Len(added) - 1) ELSE added

setColor(color) ==
    /\ app = "2d"
    /\ currentColor' = color
    /\ recentColors' = addRecentColor(recentColors, color)
    /\ UNCHANGED <<conv, varsWorker, app, gridSize, hexCells, currentTool, isDrawing, isPanning,
                   history, historyIndex, shared>>
    /\ UNCHANGED <<vars3D, varsLog>>

\* init() of the 2D editor: setColor(STATE.currentColor), then the blank grid is
\* recorded.
init2D ==
    /\ app = "none"
    /\ app' = "2d"
    /\ UNCHANGED <<conv, varsWorker>>
    /\ LET sv == saveState2D(history, historyIndex, shared, hexCells)
       IN /\ history' = sv.history
          /\ historyIndex' = sv.historyIndex
          /\ shared' = sv.shared
          /\ pruned' = sv.pruned
          /\ evicted' = (evicted \/ sv.evicted)
          /\ UNCHANGED fill
    /\ lastOp' = "init"
    /\ recentColors' = addRecentColor(recentColors, currentColor)
    /\ UNCHANGED <<gridSize, hexCells, currentTool, currentColor, isDrawing, isPanning,
                   cellsBefore, editsOnly>>
    /\ UNCHANGED vars3D

\* applySettings: CONFIG.gridSize takes the value of the slider; the store is kept.
applySettings(g) ==
    /\ app = "2d"
    /\ gridSize' = g
    /\ UNCHANGED <<conv, varsWorker, app, hexCells, currentTool, currentColor, recentColors, isDrawing, isPanning,
                   history, historyIndex, shared>>
    /\ UNCHANGED <<vars3D, varsLog>>

-----------------------------------------------------------------------------
(* 2D: a fill click, one step per iteration of the floodFill loop.  The click  *)
(* is handleMouseDown with the left button, the fill tool and a cell of the    *)
(* grid: saveState, then drawAtPosition calls floodFill (lines 829-831, 406).  *)

floodFillCall(hex) ==
    LET sv == saveState2D(history, historyIndex, shared, hexCells)
        target == MapGet(hexCells, hex)
    IN /\ app = "2d"
       /\ currentTool = "fill"
       /\ InGrid(hex, gridSize)
       /\ fill.pc # "loop"
       /\ isDrawing' = TRUE
       /\ history' = sv.history
       /\ historyIndex' = sv.historyIndex
       /\ shared' = sv.shared
       /\ pruned' = sv.pruned
       /\ evicted' = (evicted \/ sv.evicted)
       /\ cellsBefore' = hexCells
       /\ lastOp' = "noopEdit"
       /\ fill' = IF target = currentColor
                  THEN FillFrame("done", hex, target, currentColor, {}, <<>>, 0, {}, FALSE, 0)
                  ELSE FillFrame("loop", hex, target, currentColor, {}, <<hex>>, 0, {},
                                 FALSE, 0)
       /\ UNCHANGED <<conv, varsWorker, app, gridSize, hexCells, currentTool, currentColor, recentColors, isPanning,
                      editsOnly>>
       /\ UNCHANGED vars3D

floodFillIteration ==
    /\ fill.pc = "loop"
    /\ FloodContinues(fill.stack, fill.filled)
    /\ LET n == FloodStep(hexCells, fill.visited, fill.stack, fill.filled,
                          fill.target, fill.color, gridSize)
       IN /\ hexCells' = n.cells
          /\ history' = WriteThrough(history, shared, n.cells)
          /\ fill' = FillFrame("loop", fill.start, fill.target, fill.color, n.visited,
                               n.stack, n.filled,
                               IF n.processed THEN fill.tested \cup {n.cur} ELSE fill.tested,
                               fill.twice \/ (n.processed /\ n.cur \in fill.tested),
                               fill.iterations + 1)
    /\ UNCHANGED <<conv, varsWorker, app, gridSize, currentTool, currentColor, recentColors, isDrawing, isPanning,
                   historyIndex, shared>>
    /\ UNCHANGED <<vars3D, lastOp, cellsBefore, editsOnly, pruned, evicted>>

floodFillReturn ==
    /\ fill.pc = "loop"
    /\ ~FloodContinues(fill.stack, fill.filled)
    /\ fill' = [fill EXCEPT !.pc = "done"]
    /\ lastOp' = IF hexCells # cellsBefore THEN "edit" ELSE "noopEdit"
    /\ editsOnly' = (editsOnly /\ hexCells # cellsBefore)
    /\ UNCHANGED <<conv, varsWorker, app, vars2D, vars3D, history, historyIndex, shared, cellsBefore,
                   pruned, evicted>>

-----------------------------------------------------------------------------
(* Coordinate conversions.  The quantities are real numbers of the form       *)
(* (a + b * sqrt(3)) / d with integers a, b and d > 0, kept in lowest terms   *)
(* and computed exactly; Math.sqrt(3) is sqrt(3).                             *)

Abs(n) == IF n < 0 THEN -n ELSE n

RECURSIVE Gcd(_, _)
Gcd(m, n) == IF n = 0 THEN m ELSE Gcd(n, m % n)

Surd(a, b, d) ==
    LET g == Gcd(Gcd(Abs(a), Abs(b)), Abs(d))
        s == IF d < 0 THEN -1 ELSE 1
    IN [a |-> (s * a) \div g, b |-> (s * b) \div g, d |-> (s * d) \div g]

Number(n) == Surd(n, 0, 1)
Ratio(n, d) == Surd(n, 0, d)
Sqrt3 == Surd(0, 1, 1)

Plus(x, y) == Surd(x.a * y.d + y.a * x.d, x.b * y.d + y.b * x.d, x.d * y.d)
Minus(x, y) == Surd(x.a * y.d - y.a * x.d, x.b * y.d - y.b * x.d, x.d * y.d)
Times(x, y) == Surd(x.a * y.a + 3 * x.b * y.b, x.a * y.b + x.b * y.a, x.d * y.d)
\* x / y for y # 0: x times the conjugate of y over the norm of y.
Over(x, y) == Times(x, Surd(y.d * y.a, -(y.d * y.b), y.a * y.a - 3 * y.b * y.b))

\* The sign of a + b * sqrt(3): decided by a^2 against 3 * b^2 when a and b have
\* opposite signs.
Sign(x) ==
    IF x.a >= 0 /\ x.b >= 0 THEN (IF x.a = 0 /\ x.b = 0 THEN 0 ELSE 1)
    ELSE IF x.a <= 0 /\ x.b <= 0 THEN -1
    ELSE IF x.a > 0 THEN (IF x.a * x.a > 3 * x.b * x.b THEN 1 ELSE -1)
    ELSE (IF 3 * x.b * x.b > x.a * x.a THEN 1 ELSE -1)

\* Math.floor: the integer n with n <= x < n + 1, looked for around an estimate
\* made with 1.732 for sqrt(3).
Floor(x) ==
    LET near == (1000 * x.a + 1732 * x.b) \div (1000 * x.d)
    IN CHOOSE n \in (near - 2)..(near + 2) :
          /\ Sign(Minus(x, Number(n))) >= 0
          /\ Sign(Minus(x, Number(n + 1))) < 0

\* Math.round: the nearest integer, a half rounded up.
MathRound(x) == Floor(Plus(x, Ratio(1, 2)))

\* HexGrid.updateDimensions, lines 193-198.
hexWidth(hexSize) == Times(Number(hexSize), Number(2))
hexHeight(hexSize) == Times(Sqrt3, Number(hexSize))
verticalSpacing(hexSize) == hexHeight(hexSize)
horizontalSpacing(hexSize) == Times(hexWidth(hexSize), Ratio(3, 4))

\* HexGrid.hexToPixel, lines 229-235.
hexToPixel(col, row, hexSize) ==
    LET rowOffset == IF IsOddCol(col) THEN Over(hexHeight(hexSize), Number(2)) ELSE Number(0)
    IN [x |-> Times(Number(col), horizontalSpacing(hexSize)),
        y |-> Plus(Times(Number(row), verticalSpacing(hexSize)), rowOffset)]

\* Where render() puts a point of the grid on the canvas: ctx.translate(panOffset),
\* then ctx.scale(zoom), lines 307-308.
ScreenPosition(p, offset, zoom) ==
    [x |-> Plus(Times(p.x, zoom), offset.x), y |-> Plus(Times(p.y, zoom), offset.y)]

\* Faulty variant of pixelToHex: the row is computed without the offset of the
\* odd columns.
pixelToHexNoStagger(x, y, hexSize, offset, zoom) ==
    LET adjustedX == Over(Minus(x, offset.x), zoom)
        adjustedY == Over(Minus(y, offset.y), zoom)
        col == MathRound(Over(adjustedX, horizontalSpacing(hexSize)))
        row == MathRound(Over(adjustedY, verticalSpacing(hexSize)))
    IN <<col, row>>

\* HexGrid.pixelToHex, lines 214-226; zoom is STATE.zoom.
pixelToHex(x, y, hexSize, offset, zoom) ==
    LET adjustedX == Over(Minus(x, offset.x), zoom)
        adjustedY == Over(Minus(y, offset.y), zoom)
        col == MathRound(Over(adjustedX, horizontalSpacing(hexSize)))
        rowOffset == IF IsOddCol(col) THEN Over(hexHeight(hexSize), Number(2)) ELSE Number(0)
        row == MathRound(Over(Minus(adjustedY, rowOffset), verticalSpacing(hexSize)))
    IN <<col, row>>

\* hexToWorld and worldToHex of the 3D builder, app.js lines 241-253.
hexToWorld(q, r) ==
    [x |-> Times(Times(Number(hexRadius), Sqrt3), Plus(Number(q), Ratio(r, 2))),
     z |-> Times(Times(Number(hexRadius), Ratio(3, 2)), Number(r))]

worldToHex(x, z) ==
    LET q == Over(Minus(Times(Over(Sqrt3, Number(3)), x), Times(Ratio(1, 3), z)),
                  Number(hexRadius))
        r == Over(Times(Ratio(2, 3), z), Number(hexRadius))
    IN <<MathRound(q), MathRound(r)>>

\* The arguments and the result of a conversion; kind is "none" before any.
Conversion(kind, cell, hexSize, offset, zoom, out) ==
    [kind |-> kind, cell |-> cell, hexSize |-> hexSize, offset |-> offset, zoom |-> zoom,
     out |-> out]

DefaultHexSize == 30

NoConv ==
    Conversion("none", <<0, 0>>, DefaultHexSize, [x |-> Number(0), y |-> Number(0)],
               Number(1), <<0, 0>>)

\* The pointer is on the centre of cell (col, row) as drawn: updateHoveredHex,
\* line 867, converts its position back to a cell.
hoverCellCentre(col, row, hexSize, offset, zoom) ==
    LET p == ScreenPosition(hexToPixel(col, row, hexSize), offset, zoom)
    IN /\ conv.kind = "none"
       /\ conv' = Conversion("2d", <<col, row>>, hexSize, offset, zoom,
                             pixelToHex(p.x, p.y, hexSize, offset, zoom))
       /\ UNCHANGED <<app, vars2D, vars3D, history, historyIndex, shared, varsLog, varsWorker>>

\* The ray hits the ground at the centre of cell (q, r): updateRaycast, line 644,
\* converts the hit point back to a cell.
hoverGroundCentre(q, r) ==
    LET p == hexToWorld(q, r)
    IN /\ conv.kind = "none"
       /\ conv' = Conversion("3d", <<q, r>>, conv.hexSize, conv.offset, conv.zoom,
                             worldToHex(p.x, p.z))
       /\ UNCHANGED <<app, vars2D, vars3D, history, historyIndex, shared, varsLog, varsWorker>>

-----------------------------------------------------------------------------
(* 3D: rays.  A pointer position together with the camera is a ray; a ray is  *)
(* the list of faces it would cross, nearest first.  raycaster.intersectObjects *)
(* returns the crossings of the meshes that exist, so the hit is the first    *)
(* entry whose object exists.                                                 *)

\* The ray meets the ground plane at the world point (x, z).
GroundPoint(x, z) == [obj |-> "ground", point |-> [x |-> x, z |-> z]]

\* The ray meets the ground plane at the centre of cell (q, r).
GroundHit(q, r) == GroundPoint(hexToWorld(q, r).x, hexToWorld(q, r).z)

\* ny: sign of the face normal's vertical component when |normal.y| > 0.5, else 0;
\* angle: Math.atan2(normal.z, normal.x), the normal's horizontal angle, in degrees.
BlockHit(q, r, y, ny, angle) ==
    [obj |-> "block", key |-> <<q, r, y>>, ny |-> ny, angle |-> angle]

\* Looking down on column (q, r): the top faces from the highest layer to layer -1,
\* then the ground under the column.
DownRay(q, r) ==
    [i \in 1..(maxHeight + 1) |-> BlockHit(q, r, maxHeight - i, 1, 0)] \o <<GroundHit(q, r)>>

\* The horizontal angles, in degrees, of the side-face normals aimed at.
SideAngles ==
    [side_m180 |-> -180, side_m165 |-> -165, side_m150 |-> -150, side_m135 |-> -135,
     side_m120 |-> -120, side_m105 |-> -105, side_m90 |-> -90, side_m75 |-> -75,
     side_m60 |-> -60, side_m45 |-> -45, side_m30 |-> -30, side_m15 |-> -15,
     side_0 |-> 0, side_p15 |-> 15, side_p30 |-> 30, side_p45 |-> 45,
     side_p60 |-> 60, side_p75 |-> 75, side_p90 |-> 90, side_p105 |-> 105,
     side_p120 |-> 120, side_p135 |-> 135, side_p150 |-> 150, side_p165 |-> 165,
     side_p180 |-> 180]

SideRayNames == DOMAIN SideAngles

\* Aiming at a side face of the block at (1, 0, 1), and past it at nothing.
SideRay(angle) == <<BlockHit(1, 0, 1, 0, angle)>>

\* Aiming at the bottom face of the block at (q, r, y), and past it at nothing.
UpRay(q, r, y) == <<BlockHit(q, r, y, -1, 0)>>

\* A point of the ground inside the hexagon of cell (2, 0), four fifths of the
\* way from its centre to its upper corner.
NearCorner == [x |-> hexToWorld(2, 0).x, z |-> Ratio(4, 5)]

\* Looking down on NearCorner: the top faces of column (2, 0), then the ground.
CornerRay ==
    [i \in 1..(maxHeight + 1) |-> BlockHit(2, 0, maxHeight - i, 1, 0)]
        \o <<GroundPoint(NearCorner.x, NearCorner.z)>>

Rays ==
    [sky |-> <<>>,
     corner |-> CornerRay,
     beside |-> DownRay(2, 0),
     edge |-> <<BlockHit(2, 0, 0, 1, 0), BlockHit(1, 0, 0, 0, 0),
                BlockHit(1, 0, -1, 1, 0), GroundHit(1, 0)>>,
     under |-> UpRay(2, 0, 1),
     below |-> UpRay(1, 0, -1)]
    @@ [name \in SideRayNames |-> SideRay(SideAngles[name])]

RayNames == {"sky", "beside", "edge"}

HitExists(hit, meshes, withGround) ==
    IF hit.obj = "ground" THEN withGround ELSE hit.key \in DOMAIN meshes

\* The nearest of the faces r that exist, Null when there is none.
NearestFace(r, meshes, withGround) ==
    LET found == {i \in 1..Len(r) : HitExists(r[i], meshes, withGround)}
    IN IF found = {} THEN Null
       ELSE r[CHOOSE i \in found : \A j \in found : i <= j]

intersectObjects(ray, meshes, withGround) == NearestFace(Rays[ray], meshes, withGround)

-----------------------------------------------------------------------------
(* 3D: block management *)

StarterPositions ==
    << <<0, 0, 0>>, <<1, 0, 0>>, <<-1, 0, 0>>, <<0, 0, 1>>, <<0, 0, -1>>,
       <<1, 0, 1>>, <<-1, 0, -1>>, <<1, 0, -1>>, <<-1, 0, 1>> >>

getBlockKey(x, y, z) == <<x, y, z>>

\* key.split(',').map(Number)
ParseKey(key) == [q |-> key[1], r |-> key[2], y |-> key[3]]

\* Faulty variant of addBlock: an occupied key is overwritten.
addBlockOverwrite(b, meshes, q, r, y, materialIndex) ==
    LET key == getBlockKey(q, r, y)
    IN [ok |-> TRUE,
        blocks |-> MapSet(b, key, materialIndex),
        meshes |-> MapSet(meshes, key,
                          [q |-> q, r |-> r, y |-> y, materialIndex |-> materialIndex])]

\* addBlock on the pair (STATE.blocks, blockMeshes); ok is its return value.
addBlock(b, meshes, q, r, y, materialIndex) ==
    LET key == getBlockKey(q, r, y)
    IN IF MapHas(b, key)
       THEN [ok |-> FALSE, blocks |-> b, meshes |-> meshes]
       ELSE [ok |-> TRUE,
             blocks |-> MapSet(b, key, materialIndex),
             meshes |-> MapSet(meshes, key,
                               [q |-> q, r |-> r, y |-> y, materialIndex |-> materialIndex])]

\* Faulty variant of removeBlock: the mesh stays in blockMeshes.
removeBlockKeepMesh(b, meshes, q, r, y) ==
    LET key == getBlockKey(q, r, y)
    IN IF ~MapHas(b, key)
       THEN [ok |-> FALSE, blocks |-> b, meshes |-> meshes]
       ELSE [ok |-> TRUE, blocks |-> MapDelete(b, key), meshes |-> meshes]

removeBlock(b, meshes, q, r, y) ==
    LET key == getBlockKey(q, r, y)
    IN IF ~MapHas(b, key)
       THEN [ok |-> FALSE, blocks |-> b, meshes |-> meshes]
       ELSE [ok |-> TRUE,
             blocks |-> MapDelete(b, key),
             meshes |-> IF MapHas(meshes, key) THEN MapDelete(meshes, key) ELSE meshes]

\* A block mesh is named by the key it was made for and by whether removeBlock
\* has taken it out of blockMeshes; the meshes removed under one key are not
\* told apart.
Mesh(key, removed) == [key |-> key, removed |-> removed, batch |-> 0]

MeshesOf(meshes) == {Mesh(key, FALSE) : key \in DOMAIN meshes}

\* An animation without a callback only rescales its mesh: its entry keeps the
\* easing and the time left, not the mesh.
AnyMesh == Mesh(<<>>, FALSE)

\* The durations of the animations in units of 50 ms: 200 ms (line 283) and
\* 150 ms (line 303).
GrowDuration == 4
ShrinkDuration == 3

\* animateScale, lines 334-347: `remaining` is duration - (now - startTime), and
\* onComplete says whether a callback was passed.
animateScale(anims, mesh, duration, easing, onComplete) ==
    anims \cup {[mesh |-> IF onComplete THEN mesh ELSE AnyMesh, easing |-> easing,
                 remaining |-> duration, onComplete |-> onComplete]}

\* addBlock, lines 280-287, on the scene and the animations list.
addBlockToScene(sc, anims, key, animate) ==
    [scene |-> sc \cup {Mesh(key, FALSE)},
     animations |-> IF animate
                    THEN animateScale(anims, Mesh(key, FALSE), GrowDuration, "bounceOut", FALSE)
                    ELSE anims]

\* Removed meshes of one key can be in the scene together (remove, undo, remove
\* again before the first has gone).  A removed mesh is told apart by its batch:
\* the meshes removed at the same moment leave the scene in the same frame and
\* form one batch, and up to MaxFading batches are told apart.
MaxFading == 2
Batches == 0..(MaxFading - 1)
Batch(sc, n) == {m \in sc : m.removed /\ m.batch = n}

FadingMesh(sc, anims, key) ==
    LET now == {a.mesh.batch : a \in {b \in anims : /\ b.onComplete
                                                     /\ b.remaining = ShrinkDuration}}
        free == {n \in Batches : Batch(sc, n) = {}}
    IN [Mesh(key, TRUE) EXCEPT
           !.batch = IF now # {} THEN CHOOSE n \in now : TRUE
                     ELSE IF free = {} THEN MaxFading - 1
                     ELSE CHOOSE n \in free : \A k \in free : n <= k]

\* Faulty variant of removeBlockFromScene: the animation gets no callback.
removeBlockNoCallback(sc, anims, key) ==
    [scene |-> (sc \ {Mesh(key, FALSE)}) \cup {FadingMesh(sc, anims, key)},
     animations |-> animateScale(anims, FadingMesh(sc, anims, key), ShrinkDuration, "easeIn",
                                 FALSE)]

\* removeBlock with animate = true, lines 301-314, on the scene and the
\* animations list: the mesh stays in the scene until the callback runs.
removeBlockFromScene(sc, anims, key) ==
    [scene |-> (sc \ {Mesh(key, FALSE)}) \cup {FadingMesh(sc, anims, key)},
     animations |-> animateScale(anims, FadingMesh(sc, anims, key), ShrinkDuration, "easeIn",
                                 TRUE)]

\* loadState, lines 815-827, on the scene: the meshes of blockMeshes leave the
\* scene, those of the loaded blocks enter it unanimated.
loadStateScene(sc, anims, meshes, loaded) ==
    [scene |-> (sc \ MeshesOf(meshes)) \cup MeshesOf(loaded), animations |-> anims]

\* createStarterBlocks, lines 230-232: every block added is animated.
RECURSIVE StarterScene(_, _, _)
StarterScene(sc, anims, keys) ==
    IF keys = {} THEN [scene |-> sc, animations |-> anims]
    ELSE LET key == CHOOSE k \in keys : TRUE
             added == addBlockToScene(sc, anims, key, TRUE)
         IN StarterScene(added.scene, added.animations, keys \ {key})

\* Time passes by one unit.
elapse(anims) ==
    {[a EXCEPT !.remaining = IF a.remaining > 0 THEN a.remaining - 1 ELSE 0] : a \in anims}

\* updateAnimations, lines 349-373: the animations with elapsed >= duration are
\* taken off the list and their callbacks run (scene.remove(mesh), line 304).
\* A mesh name leaves the scene with the last callback pending on it.
updateAnimations(sc, anims) ==
    LET pending == {a \in anims : a.remaining > 0}
        called == {a.mesh : a \in {b \in anims : b.remaining = 0 /\ b.onComplete}}
        waiting == {a.mesh : a \in {b \in pending : b.onComplete}}
    IN [scene |-> sc \ (called \ waiting), animations |-> pending]

NeighborOffsets == << <<1, 0>>, <<0, 1>>, <<-1, 1>>, <<-1, 0>>, <<0, -1>>, <<1, -1>> >>

\* JavaScript's remainder: the sign of the result is the sign of the dividend.
JsRem(a, n) == IF a >= 0 THEN a % n ELSE -((-a) % n)

\* Faulty variant of SectorDir: the quotient is truncated downwards, not rounded.
SectorDirFloor(angle) == angle \div 60

\* const dir = Math.round(angle / (Math.PI / 3)): with the angle in degrees the
\* quotient is angle / 60, and Math.round(x) is the floor of x + 1/2.
SectorDir(angle) == (angle + 30) \div 60

SectorIndex(dir) == JsRem(JsRem(dir, 6) + 6, 6)

\* The cell that updateRaycast derives from the first intersection, lines 640-684.
HoveredFrom(hit, meshes) ==
    IF hit = Null THEN Null
    ELSE IF hit.obj = "ground"
         THEN LET hex == worldToHex(hit.point.x, hit.point.z)
              IN [q |-> hex[1], r |-> hex[2], y |-> -1]
         ELSE LET block == meshes[hit.key]
              IN IF hit.ny # 0
                 THEN [q |-> block.q, r |-> block.r,
                       y |-> IF hit.ny > 0 THEN block.y + 1 ELSE block.y - 1]
                 ELSE LET off == NeighborOffsets[SectorIndex(SectorDir(hit.angle)) + 1]
                      IN [q |-> block.q + off[1], r |-> block.r + off[2], y |-> block.y]

\* updateRaycast: the value it leaves in STATE.hoveredBlock.
updateRaycast(ray, meshes) == HoveredFrom(intersectObjects(ray, meshes, TRUE), meshes)

-----------------------------------------------------------------------------
(* 3D: history *)

\* Faulty variant of saveState3D: the snapshots after historyIndex are kept.
saveStateKeepRedo3D(h, idx, sh, b) ==
    LET h2 == Append(h, b)
        sh2 == sh \cup NewMapAliases(Len(h2))
    IN IF Len(h2) > HistoryLimit3D
       THEN [history |-> Tail(h2), historyIndex |-> Len(h2) - 1 - 1,
             shared |-> ShiftAliases(sh2), pruned |-> FALSE, evicted |-> TRUE]
       ELSE [history |-> h2, historyIndex |-> Len(h2) - 1, shared |-> sh2,
             pruned |-> FALSE, evicted |-> FALSE]

saveState3D(h, idx, sh, b) ==
    LET h1 == IF idx < Len(h) - 1 THEN SubSeq(h, 1, idx + 1) ELSE h
        sh1 == sh \cap (1..Len(h1))
        h2 == Append(h1, b)
        sh2 == sh1 \cup NewMapAliases(Len(h2))
    IN IF Len(h2) > HistoryLimit3D
       THEN [history |-> Tail(h2), historyIndex |-> Len(h2) - 1 - 1,
             shared |-> ShiftAliases(sh2), pruned |-> Len(h1) < Len(h), evicted |-> TRUE]
       ELSE [history |-> h2, historyIndex |-> Len(h2) - 1, shared |-> sh2,
             pruned |-> Len(h1) < Len(h), evicted |-> FALSE]

\* Faulty variant of undoEnabled3D: undo stops one snapshot short of the first.
undoEnabledAboveFirst(idx) == idx > 1

undoEnabled3D(idx) == ~(idx <= 0)

redoEnabled3D(h, idx) == ~(idx >= Len(h) - 1)

\* The loop of loadState, lines 824-827, over the entries of the snapshot.
RECURSIVE LoadEntries(_, _, _, _)
LoadEntries(snapshot, keys, b, meshes) ==
    IF keys = {} THEN [blocks |-> b, meshes |-> meshes]
    ELSE LET key == CHOOSE k \in keys : TRUE
             p == ParseKey(key)
             added == addBlock(b, meshes, p.q, p.r, p.y, snapshot[key])
         IN LoadEntries(snapshot, keys \ {key}, added.blocks, added.meshes)

\* loadState: blockMeshes and STATE.blocks are cleared in place, then refilled.
\* A snapshot that is the live store object itself is empty once that is cleared.
loadState(h, pos, sh) ==
    LET snapshot == IF pos \in sh THEN EmptyMap ELSE h[pos]
    IN LoadEntries(snapshot, DOMAIN snapshot, EmptyMap, EmptyMap)

-----------------------------------------------------------------------------
(* 3D: event handlers *)

\* placeBlock, lines 686-697.
placeBlock ==
    IF hoveredBlock = Null
    THEN UNCHANGED <<blocks, blockMeshes, scene, animations, history, historyIndex, shared, varsLog>>
    ELSE LET placeY == IF hoveredBlock.y = -1 THEN 0 ELSE hoveredBlock.y
         IN IF placeY >= 0 /\ placeY < maxHeight
            THEN LET added == addBlock(blocks, blockMeshes, hoveredBlock.q, hoveredBlock.r,
                                       placeY, currentMaterial)
                     sv == saveState3D(WriteThrough(history, shared, added.blocks),
                                       historyIndex, shared, added.blocks)
                     shown == addBlockToScene(scene, animations,
                                              getBlockKey(hoveredBlock.q, hoveredBlock.r, placeY),
                                              TRUE)
                 IN IF added.ok
                    THEN /\ blocks' = added.blocks
                         /\ blockMeshes' = added.meshes
                         /\ scene' = shown.scene
                         /\ animations' = shown.animations
                         /\ history' = sv.history
                         /\ historyIndex' = sv.historyIndex
                         /\ shared' = sv.shared
                         /\ lastOp' = "edit"
                         /\ cellsBefore' = blocks
                         /\ pruned' = sv.pruned
                         /\ evicted' = (evicted \/ sv.evicted)
                         /\ UNCHANGED fill
                         /\ UNCHANGED editsOnly
                    ELSE /\ lastOp' = "noopEdit"
                         /\ cellsBefore' = blocks
                         /\ editsOnly' = FALSE
                         /\ UNCHANGED <<blocks, blockMeshes, scene, animations, history, historyIndex, shared,
                                        pruned, evicted, fill>>
            ELSE /\ lastOp' = "noopEdit"
                 /\ cellsBefore' = blocks
                 /\ editsOnly' = FALSE
                 /\ UNCHANGED <<blocks, blockMeshes, scene, animations, history, historyIndex, shared, pruned, evicted, fill>>

\* removeBlockAtCursor, lines 699-710.
removeBlockAtCursor ==
    LET hit == intersectObjects(mouse, blockMeshes, FALSE)
    IN IF hit = Null
       THEN UNCHANGED <<blocks, blockMeshes, scene, animations, history, historyIndex, shared, varsLog>>
       ELSE LET block == blockMeshes[hit.key]
                removed == removeBlock(blocks, blockMeshes, block.q, block.r, block.y)
                sv == saveState3D(WriteThrough(history, shared, removed.blocks),
                                  historyIndex, shared, removed.blocks)
                shown == removeBlockFromScene(scene, animations, hit.key)
            IN IF removed.ok
               THEN /\ blocks' = removed.blocks
                    /\ blockMeshes' = removed.meshes
                    /\ scene' = shown.scene
                    /\ animations' = shown.animations
                    /\ history' = sv.history
                    /\ historyIndex' = sv.historyIndex
                    /\ shared' = sv.shared
                    /\ lastOp' = "edit"
                    /\ cellsBefore' = blocks
                    /\ pruned' = sv.pruned
                    /\ evicted' = (evicted \/ sv.evicted)
                    /\ UNCHANGED fill
                    /\ UNCHANGED editsOnly
               ELSE UNCHANGED <<blocks, blockMeshes, scene, animations, history, historyIndex, shared, varsLog>>

\* Faulty variant of onMouseMove: while the left button is held the move places
\* a block at the cell hovered so far, as a drag would.
onMouseMoveDragPlace(ray) ==
    /\ app = "3d"
    /\ mouse' = ray
    /\ hoveredBlock' = updateRaycast(ray, blockMeshes)
    /\ IF isPlacing
       THEN placeBlock
       ELSE UNCHANGED <<blocks, blockMeshes, scene, animations, history, historyIndex, shared, varsLog>>
    /\ UNCHANGED <<conv, varsWorker, app, vars2D, brushSize, currentMaterial, isPlacing>>

onMouseMove(ray) ==
    /\ app = "3d"
    /\ mouse' = ray
    /\ hoveredBlock' = updateRaycast(ray, blockMeshes)
    /\ UNCHANGED <<conv, varsWorker, app, vars2D, brushSize, blocks, blockMeshes, scene, animations, currentMaterial, isPlacing,
                   history, historyIndex, shared, varsLog>>

\* flyUnlocked: STATE.mode === 'fly' && !document.pointerLockElement
onMouseDown(button, flyUnlocked) ==
    /\ app = "3d"
    /\ IF flyUnlocked
       THEN UNCHANGED vars
       ELSE IF button = 0
            THEN /\ isPlacing' = TRUE
                 /\ placeBlock
                 /\ UNCHANGED <<conv, varsWorker, app, vars2D, brushSize, hoveredBlock, currentMaterial, mouse>>
            ELSE IF button = 2
                 THEN /\ removeBlockAtCursor
                      /\ UNCHANGED <<conv, varsWorker, app, vars2D, brushSize, hoveredBlock, currentMaterial, isPlacing,
                                     mouse>>
                 ELSE UNCHANGED vars

onMouseUp(button) ==
    /\ app = "3d"
    /\ isPlacing' = IF button = 0 THEN FALSE ELSE isPlacing
    /\ UNCHANGED <<conv, varsWorker, app, vars2D, brushSize, blocks, blockMeshes, scene, animations, hoveredBlock, currentMaterial, mouse,
                   history, historyIndex, shared, varsLog>>

onTouchStart(touches, ray) ==
    /\ app = "3d"
    /\ IF touches = 1
       THEN /\ mouse' = ray
            /\ hoveredBlock' = updateRaycast(ray, blockMeshes)
            /\ UNCHANGED <<conv, varsWorker, app, vars2D, brushSize, blocks, blockMeshes, scene, animations, currentMaterial, isPlacing,
                           history, historyIndex, shared, varsLog>>
       ELSE UNCHANGED vars

onTouchMove(touches, ray) ==
    /\ app = "3d"
    /\ IF touches = 1
       THEN /\ mouse' = ray
            /\ hoveredBlock' = updateRaycast(ray, blockMeshes)
            /\ UNCHANGED <<conv, varsWorker, app, vars2D, brushSize, blocks, blockMeshes, scene, animations, currentMaterial, isPlacing,
                           history, historyIndex, shared, varsLog>>
       ELSE UNCHANGED vars

onTouchEnd(changedTouches) ==
    /\ app = "3d"
    /\ IF changedTouches = 1
       THEN /\ placeBlock
            /\ UNCHANGED <<conv, varsWorker, app, vars2D, brushSize, hoveredBlock, currentMaterial, isPlacing, mouse>>
       ELSE UNCHANGED vars

undo3D ==
    /\ app = "3d"
    /\ IF undoEnabled3D(historyIndex)
       THEN LET loaded == loadState(history, historyIndex, shared)
                shown == loadStateScene(scene, animations, blockMeshes, loaded.meshes)
            IN /\ historyIndex' = historyIndex - 1
               /\ blocks' = loaded.blocks
               /\ blockMeshes' = loaded.meshes
               /\ scene' = shown.scene
               /\ animations' = shown.animations
               /\ history' = WriteThrough(history, shared, loaded.blocks)
               /\ lastOp' = "undo"
               /\ cellsBefore' = blocks
               /\ editsOnly' = FALSE
               /\ UNCHANGED <<conv, varsWorker, app, vars2D, brushSize, hoveredBlock, currentMaterial, isPlacing, mouse,
                              shared, pruned, evicted, fill>>
       ELSE /\ lastOp' = "undoNoop"
            /\ cellsBefore' = blocks
            /\ UNCHANGED <<conv, varsWorker, app, vars2D, vars3D, history, historyIndex, shared,
                           editsOnly, pruned, evicted, fill>>

redo3D ==
    /\ app = "3d"
    /\ IF redoEnabled3D(history, historyIndex)
       THEN LET loaded == loadState(history, historyIndex + 2, shared)
                shown == loadStateScene(scene, animations, blockMeshes, loaded.meshes)
            IN /\ historyIndex' = historyIndex + 1
               /\ blocks' = loaded.blocks
               /\ blockMeshes' = loaded.meshes
               /\ scene' = shown.scene
               /\ animations' = shown.animations
               /\ history' = WriteThrough(history, shared, loaded.blocks)
               /\ lastOp' = "redo"
               /\ cellsBefore' = blocks
               /\ editsOnly' = FALSE
               /\ UNCHANGED <<conv, varsWorker, app, vars2D, brushSize, hoveredBlock, currentMaterial, isPlacing, mouse,
                              shared, pruned, evicted, fill>>
       ELSE /\ lastOp' = "redoNoop"
            /\ cellsBefore' = blocks
            /\ UNCHANGED <<conv, varsWorker, app, vars2D, vars3D, history, historyIndex, shared,
                           editsOnly, pruned, evicted, fill>>

selectMaterial(index) ==
    /\ app = "3d"
    /\ currentMaterial' = index
    /\ UNCHANGED <<conv, varsWorker, app, vars2D, brushSize, blocks, blockMeshes, scene, animations, hoveredBlock, isPlacing, mouse,
                   history, historyIndex, shared, varsLog>>

MinBrushSize == 1
MaxBrushSize == 5

Min(a, b) == IF a < b THEN a ELSE b
Max(a, b) == IF a > b THEN a ELSE b

\* case 'KeyQ': STATE.brushSize = Math.max(1, STATE.brushSize - 1)
decreaseBrush(size) == Max(MinBrushSize, size - 1)

\* Faulty variant of the KeyE case: the increment without the upper limit.
increaseBrushUnlimited(size) == size + 1

\* case 'KeyE': STATE.brushSize = Math.min(5, STATE.brushSize + 1)
increaseBrush(size) == Min(MaxBrushSize, size + 1)

\* The key codes of the number row, and parseInt(event.code.slice(-1)) of each.
DigitCodes == {"Digit1", "Digit2", "Digit3", "Digit4", "Digit5",
               "Digit6", "Digit7", "Digit8", "Digit9", "Digit0"}
LastDigit == [Digit1 |-> 1, Digit2 |-> 2, Digit3 |-> 3, Digit4 |-> 4, Digit5 |-> 5,
              Digit6 |-> 6, Digit7 |-> 7, Digit8 |-> 8, Digit9 |-> 9, Digit0 |-> 0]

\* Faulty variant of the material number of a digit key: without the special
\* case of Digit0, whose last character gives 0 - 1.
DigitMaterialPlain(code) == LastDigit[code] - 1

\* const num = event.code === 'Digit0' ? 9 : parseInt(event.code.slice(-1)) - 1
DigitMaterial(code) == IF code = "Digit0" THEN 9 ELSE LastDigit[code] - 1

\* The key codes with a case in onKeyDown that touches the modelled state, and
\* KeyW for the cases that only steer the camera or the sound.
KeyCodes == {"KeyQ", "KeyE", "KeyZ", "KeyY", "KeyW"} \cup DigitCodes

\* ctrlOrMeta: event.ctrlKey || event.metaKey
onKeyDown(code, ctrlOrMeta) ==
    /\ app = "3d"
    /\ CASE code = "KeyQ" ->
              /\ brushSize' = decreaseBrush(brushSize)
              /\ UNCHANGED <<conv, varsWorker, app, vars2D, blocks, blockMeshes, scene, animations, hoveredBlock,
                             currentMaterial, isPlacing, mouse, history, historyIndex,
                             shared, varsLog>>
         [] code = "KeyE" ->
              /\ brushSize' = increaseBrush(brushSize)
              /\ UNCHANGED <<conv, varsWorker, app, vars2D, blocks, blockMeshes, scene, animations, hoveredBlock,
                             currentMaterial, isPlacing, mouse, history, historyIndex,
                             shared, varsLog>>
         [] code = "KeyZ" -> IF ctrlOrMeta THEN undo3D ELSE UNCHANGED vars
         [] code = "KeyY" -> IF ctrlOrMeta THEN redo3D ELSE UNCHANGED vars
         [] code \in DigitCodes ->
              IF DigitMaterial(code) < MaterialCount
              THEN selectMaterial(DigitMaterial(code))
              ELSE UNCHANGED vars
         [] OTHER -> UNCHANGED vars

\* 50 ms go by: every animation has that much less time left.
timePasses ==
    /\ app = "3d"
    /\ animations' = elapse(animations)
    /\ UNCHANGED <<conv, varsWorker, app, vars2D, blocks, blockMeshes, scene, hoveredBlock, currentMaterial,
                   isPlacing, brushSize, mouse, history, historyIndex, shared, varsLog>>

\* animate, lines 903-918: the frame callback calls updateAnimations.
animate ==
    /\ app = "3d"
    /\ LET frame == updateAnimations(scene, animations)
       IN /\ scene' = frame.scene
          /\ animations' = frame.animations
    /\ UNCHANGED <<conv, varsWorker, app, vars2D, blocks, blockMeshes, hoveredBlock, currentMaterial,
                   isPlacing, brushSize, mouse, history, historyIndex, shared, varsLog>>

\* The loop of createStarterBlocks, lines 230-232.
RECURSIVE StarterLoop(_, _, _)
StarterLoop(i, b, meshes) ==
    IF i > Len(StarterPositions) THEN [blocks |-> b, meshes |-> meshes]
    ELSE LET p == StarterPositions[i]
             added == addBlock(b, meshes, p[1], p[2], p[3], 0)
         IN StarterLoop(i + 1, added.blocks, added.meshes)

\* init() of the 3D builder: createStarterBlocks adds nine blocks and records them.
init3D ==
    /\ app = "none"
    /\ app' = "3d"
    /\ UNCHANGED <<conv, varsWorker>>
    /\ LET start == StarterLoop(1, blocks, blockMeshes)
           shown == StarterScene(scene, animations, DOMAIN start.meshes)
           sv == saveState3D(history, historyIndex, shared, start.blocks)
       IN /\ blocks' = start.blocks
          /\ blockMeshes' = start.meshes
          /\ scene' = shown.scene
          /\ animations' = shown.animations
          /\ history' = sv.history
          /\ historyIndex' = sv.historyIndex
          /\ shared' = sv.shared
          /\ pruned' = sv.pruned
          /\ evicted' = (evicted \/ sv.evicted)
          /\ UNCHANGED fill
    /\ lastOp' = "init"
    /\ UNCHANGED <<vars2D, hoveredBlock, currentMaterial, isPlacing, brushSize, mouse,
                   cellsBefore, editsOnly>>

-----------------------------------------------------------------------------
(* Service worker (part_000).  A URL is the sequence of the characters of its *)
(* origin followed by its path; the path is kept as one element, since no     *)
(* test of the worker looks inside it.  A cache is the set of the URLs it     *)
(* holds a response for, and cache storage maps the names of the caches that  *)
(* exist to their contents.  Each callback of a promise chain is one action.  *)

CACHE_NAME == "hexcraft-v3-touch"
ASSETS_TO_CACHE ==
    <<"./", "./index.html", "./styles.css", "./app.js", "./manifest.json", "./icons/icon.svg">>

\* self.location.origin, and two other origins: one whose text begins with the
\* text of the worker's origin, one that does not.
Origin == <<"h", "t", "t", "p", ":", "/", "/", "l", "o", "c", "a", "l", "h", "o", "s", "t">>
PortOrigin == Origin \o <<":", "8", "0", "8", "0">>
CdnOrigin == <<"h", "t", "t", "p", "s", ":", "/", "/", "c", "d", "n">>

\* A relative URL resolved against the location of the worker script.
resolve(rel) ==
    Origin \o << CASE rel = "./" -> "/"
                   [] rel = "./index.html" -> "/index.html"
                   [] rel = "./styles.css" -> "/styles.css"
                   [] rel = "./app.js" -> "/app.js"
                   [] rel = "./manifest.json" -> "/manifest.json"
                   [] rel = "./icons/icon.svg" -> "/icons/icon.svg" >>

Assets == {resolve(ASSETS_TO_CACHE[i]) : i \in 1..Len(ASSETS_TO_CACHE)}

\* String.prototype.startsWith.
startsWith(s, prefix) == Len(s) >= Len(prefix) /\ SubSeq(s, 1, Len(prefix)) = prefix

\* The origin of a URL is everything before its path.
originOf(url) == SubSeq(url, 1, Len(url) - 1)
SameOrigin(url) == originOf(url) = Origin

Request(method, url, mode) == [method |-> method, url |-> url, mode |-> mode]
NoRequest == Request("none", <<>>, "none")

\* The requests the pages make.
Requests ==
    { Request("GET", Origin \o <<"/pixel.html">>, "navigate"),
      Request("GET", resolve("./app.js"), "no-cors"),
      Request("GET", Origin \o <<"/gallery.json">>, "cors"),
      Request("POST", Origin \o <<"/gallery.json">>, "cors"),
      Request("GET", PortOrigin \o <<"/gallery.json">>, "cors"),
      Request("GET", CdnOrigin \o <<"/font.css">>, "cors") }

\* A response: where it comes from ("cache", "network", or "worker" for the one
\* the handler constructs), the URL it answers and its status.
Response(source, url, status) == [source |-> source, url |-> url, status |-> status]
\* No response: the handler has not answered, or it answered with undefined.
NoResponse == Response("none", <<>>, 0)
OfflineResponse == Response("worker", <<>>, 408)

\* A fetch event: its request, the position of its handler ("idle" before any
\* event, "match", "network", "fallback", "done", or "passed" when the handler
\* returned without respondWith), whether caches.match found a response, what
\* the network did ("none" while not contacted, "responded", "failed"), and
\* the response the handler answered with.
FetchEvent(request, stage, hadMatch, network, response) ==
    [request |-> request, stage |-> stage, hadMatch |-> hadMatch, network |-> network,
     response |-> response]
NoEvent == FetchEvent(NoRequest, "idle", FALSE, "none", NoResponse)

NoCaches == [name \in {} |-> {}]
\* caches.open(name): the cache is created when it does not exist.
cachesOpen(cs, name) ==
    [n \in (DOMAIN cs) \cup {name} |-> IF n \in DOMAIN cs THEN cs[n] ELSE {}]
\* caches.match(request): a response stored under the URL in any cache.
cachesMatch(cs, url) == \E n \in DOMAIN cs : url \in cs[n]
\* caches.delete(name).
cachesDelete(cs, name) == [n \in (DOMAIN cs) \ {name} |-> cs[n]]
\* cache.put(request, response) and cache.addAll(urls) on the cache called name.
cachePut(cs, name, url) == [cs EXCEPT ![name] = @ \cup {url}]
cacheAddAll(cs, name, urls) == [cs EXCEPT ![name] = @ \cup urls]

\* The caches an installation can find in storage: those of earlier versions
\* of the worker, and one of the current name left by an earlier installation.
\* Each holds the page.
OldCacheNames == {"hexcraft-v1", "hexcraft-v2"}
FoundCaches(names) == [n \in names |-> {resolve("./index.html")}]

\* install listener, up to the callback of caches.open: the worker is
\* installing, with the caches named found in storage, and controlled tells
\* whether an earlier version of the worker controls open pages.
install(found, controlled) ==
    /\ worker = "parsed"
    /\ worker' = "installing"
    /\ controller' = IF controlled THEN "old" ELSE "none"
    /\ caches' = cachesOpen(FoundCaches(found), CACHE_NAME)
    /\ step' = "addAll"
    /\ UNCHANGED <<varsApp, skipWaiting, cacheNames, event, puts>>

\* cache.addAll(ASSETS_TO_CACHE) settles: it stores every asset, or it rejects
\* (a request failed or was answered with an error status) and stores none.
installAddAll(ok) ==
    /\ worker = "installing"
    /\ step = "addAll"
    /\ caches' = IF ok THEN cacheAddAll(caches, CACHE_NAME, Assets) ELSE caches
    /\ step' = IF ok THEN "skipWaiting" ELSE "catch"
    /\ UNCHANGED <<varsApp, worker, controller, skipWaiting, cacheNames, event, puts>>

\* .then(() => self.skipWaiting()): the promise given to waitUntil is fulfilled.
installSkipWaiting ==
    /\ worker = "installing"
    /\ step = "skipWaiting"
    /\ skipWaiting' = TRUE
    /\ worker' = "installed"
    /\ step' = "none"
    /\ UNCHANGED <<varsApp, controller, caches, cacheNames, event, puts>>

\* .catch((error) => console.error(...)): the promise given to waitUntil is
\* fulfilled with the value the callback returns.
installCatch ==
    /\ worker = "installing"
    /\ step = "catch"
    /\ worker' = "installed"
    /\ step' = "none"
    /\ UNCHANGED <<varsApp, controller, skipWaiting, caches, cacheNames, event, puts>>

\* message listener.
message(type) ==
    /\ worker # "parsed"
    /\ skipWaiting' = (skipWaiting \/ type = "SKIP_WAITING")
    /\ UNCHANGED <<varsApp, worker, step, controller, caches, cacheNames, event, puts>>

OldCachesNone(names) == {}

\* cacheNames.filter((name) => name !== CACHE_NAME)
OldCaches(names) == {name \in names : name # CACHE_NAME}

\* activate listener, up to the callback of caches.keys(): an installed worker
\* is activated once no earlier version controls a page or skipWaiting was called.
activate ==
    /\ worker = "installed"
    /\ skipWaiting \/ controller # "old"
    /\ worker' = "activating"
    /\ cacheNames' = OldCaches(DOMAIN caches)
    /\ step' = "delete"
    /\ UNCHANGED <<varsApp, controller, skipWaiting, caches, event, puts>>

\* One of the caches.delete(name) calls given to Promise.all settles.
activateDelete(name) ==
    /\ worker = "activating"
    /\ step = "delete"
    /\ name \in cacheNames \cap DOMAIN caches
    /\ caches' = cachesDelete(caches, name)
    /\ UNCHANGED <<varsApp, worker, step, controller, skipWaiting, cacheNames, event, puts>>

\* .then(() => self.clients.claim()), after every delete has settled: the promise
\* given to waitUntil is fulfilled.
activateClaim ==
    /\ worker = "activating"
    /\ step = "delete"
    /\ cacheNames \cap DOMAIN caches = {}
    /\ worker' = "activated"
    /\ controller' = "new"
    /\ step' = "none"
    /\ UNCHANGED <<varsApp, skipWaiting, caches, cacheNames, event, puts>>

\* fetch listener, its synchronous part.  Fetch events go to the active worker.
fetch(request) ==
    /\ worker = "activated"
    /\ event.stage \in {"idle", "done", "passed"}
    /\ event' = IF request.method # "GET" \/ ~startsWith(request.url, Origin)
                THEN FetchEvent(request, "passed", FALSE, "none", NoResponse)
                ELSE FetchEvent(request, "match", FALSE, "none", NoResponse)
    /\ UNCHANGED <<varsApp, worker, step, controller, skipWaiting, caches, cacheNames, puts>>

\* The callback of caches.match(event.request).
fetchMatch ==
    /\ event.stage = "match"
    /\ event' = IF cachesMatch(caches, event.request.url)
                THEN FetchEvent(event.request, "done", TRUE, "none",
                                Response("cache", event.request.url, 200))
                ELSE FetchEvent(event.request, "network", FALSE, "none", NoResponse)
    /\ UNCHANGED <<varsApp, worker, step, controller, skipWaiting, caches, cacheNames, puts>>

\* A put the handler has started and that has not reached the cache yet.
PendingPut(request, hadMatch, status) ==
    [request |-> request, hadMatch |-> hadMatch, status |-> status]

\* fetch(event.request) settles: the network answers with a status (the .then
\* callback), or the request fails (the .catch callback).
fetchNetwork(failed, status) ==
    /\ event.stage = "network"
    /\ IF failed
       THEN /\ event' = IF event.request.mode = "navigate"
                        THEN FetchEvent(event.request, "fallback", event.hadMatch, "failed",
                                        NoResponse)
                        ELSE FetchEvent(event.request, "done", event.hadMatch, "failed",
                                        OfflineResponse)
            /\ UNCHANGED puts
       ELSE /\ event' = FetchEvent(event.request, "done", event.hadMatch, "responded",
                                   Response("network", event.request.url, status))
            /\ puts' = IF status # 200 THEN puts
                       ELSE puts \cup {PendingPut(event.request, event.hadMatch, status)}
    /\ UNCHANGED <<varsApp, worker, step, controller, skipWaiting, caches, cacheNames>>

\* The callback of caches.match('./index.html'): the handler answers with the
\* value it resolves to, undefined when no cache holds the page.
fetchFallback ==
    /\ event.stage = "fallback"
    /\ event' = FetchEvent(event.request, "done", event.hadMatch, event.network,
                           IF cachesMatch(caches, resolve("./index.html"))
                           THEN Response("cache", resolve("./index.html"), 200)
                           ELSE NoResponse)
    /\ UNCHANGED <<varsApp, worker, step, controller, skipWaiting, caches, cacheNames, puts>>

\* caches.open(CACHE_NAME).then((cache) => cache.put(event.request, responseToCache))
openAndPut ==
    \E p \in puts :
        /\ caches' = cachePut(cachesOpen(caches, CACHE_NAME), CACHE_NAME, p.request.url)
        /\ puts' = puts \ {p}
        /\ UNCHANGED <<varsApp, worker, step, controller, skipWaiting, cacheNames, event>>

-----------------------------------------------------------------------------
(* Specifications *)

\* The module-level STATE and CONFIG literals of both applications.
Init ==
    /\ app = "none"
    /\ gridSize = InitGridSize
    /\ hexCells = EmptyMap
    /\ currentTool = "draw"
    /\ currentColor = DefaultColor
    /\ recentColors = <<>>
    /\ isDrawing = FALSE
    /\ isPanning = FALSE
    /\ blocks = EmptyMap
    /\ blockMeshes = EmptyMap
    /\ scene = {}
    /\ animations = {}
    /\ hoveredBlock = Null
    /\ currentMaterial = 0
    /\ isPlacing = FALSE
    /\ brushSize = 1
    /\ mouse = "sky"
    /\ history = <<>>
    /\ historyIndex = -1
    /\ shared = {}
    /\ lastOp = "none"
    /\ cellsBefore = EmptyMap
    /\ editsOnly = TRUE
    /\ pruned = FALSE
    /\ evicted = FALSE
    /\ fill = NoFill
    /\ conv = NoConv
    /\ worker = "parsed"
    /\ step = "none"
    /\ controller = "none"
    /\ skipWaiting = FALSE
    /\ caches = NoCaches
    /\ cacheNames = {}
    /\ event = NoEvent
    /\ puts = {}

Buttons == {0, 1, 2}
MaterialChoices == {0}
ColorChoices == {DefaultColor}

PointerDown2D ==
    \E b \in Buttons, alt \in BOOLEAN, hex \in PointerHexes(gridSize) :
        handleMouseDown(b, alt, hex)

PointerMove2D == \E hex \in PointerHexes(gridSize) : handleMouseMove(hex)

TouchStart2D == \E n \in {1, 2}, hex \in PointerHexes(gridSize) : handleTouchStart(n, hex)

TouchMove2D ==
    \E n \in {1, 2}, hex \in PointerHexes(gridSize), scroll \in BOOLEAN :
        handleTouchMove(n, hex, scroll)

TouchEnd2D == \E n \in {0, 1} : handleTouchEnd(n)

PointerMove3D == \E ray \in RayNames : onMouseMove(ray)

PointerDown3D == \E b \in Buttons, fly \in BOOLEAN : onMouseDown(b, fly)

PointerUp3D == \E b \in Buttons : onMouseUp(b)

TouchStart3D == \E n \in {1, 2}, ray \in RayNames : onTouchStart(n, ray)

TouchMove3D == \E n \in {1, 2}, ray \in RayNames : onTouchMove(n, ray)

TouchEnd3D == \E n \in {1, 2} : onTouchEnd(n)

\* An event that records a snapshot is offered while the history is short.
Room == Len(history) < MaxSnapshots

Next ==
    \/ init2D
    \/ init3D
    \/ Room /\ PointerDown2D
    \/ PointerMove2D
    \/ handleMouseUp
    \/ Room /\ TouchStart2D
    \/ TouchMove2D
    \/ TouchEnd2D
    \/ undo2D
    \/ redo2D
    \/ Room /\ clearCanvas
    \/ \E t \in Tools : selectTool(t)
    \/ \E c \in ColorChoices : setColor(c)
    \/ PointerMove3D
    \/ Room /\ PointerDown3D
    \/ PointerUp3D
    \/ TouchStart3D
    \/ TouchMove3D
    \/ Room /\ TouchEnd3D
    \/ undo3D
    \/ redo3D
    \/ \E m \in MaterialChoices : selectMaterial(m)

Spec == Init /\ [][Next]_vars

\* Long sessions: one cell drawn over and over (2D), one block placed and removed
\* beside the starter platform (3D), with undo and redo, and no bound on the
\* number of snapshots recorded.
NextLong ==
    \/ init2D
    \/ init3D
    \/ handleMouseDown(0, FALSE, <<0, 0>>)
    \/ undo2D
    \/ redo2D
    \/ hoveredBlock = Null /\ onMouseMove("beside")
    \/ \E b \in {0, 2} : onMouseDown(b, FALSE)
    \/ undo3D
    \/ redo3D

SpecLong == Init /\ [][NextLong]_vars

\* Building sessions: the 3D builder with two materials, every ray, placing and
\* removing with the mouse and by touch.
BuildMaterials == {0, 1}

NextBuild ==
    \/ init3D
    \/ PointerMove3D
    \/ Room /\ \E b \in {0, 2} : onMouseDown(b, FALSE)
    \/ Room /\ onTouchEnd(1)
    \/ \E m \in BuildMaterials : selectMaterial(m)

SpecBuild == Init /\ [][NextBuild]_vars

\* Selection sessions.  3D: the builder driven by every modelled key code and
\* every palette button, with at most MaxKeyEdits blocks placed or removed
\* beside the starter platform.  2D: the editor with every tool and both
\* colours, strokes started by mouse, undo and redo.
MaxKeyEdits == 1

PaletteButtons == 0 .. MaterialCount - 1

KeyPress == \E code \in KeyCodes, ctrlOrMeta \in BOOLEAN : onKeyDown(code, ctrlOrMeta)

NextKeys ==
    \/ init3D
    \/ KeyPress
    \/ \E index \in PaletteButtons : selectMaterial(index)
    \/ onMouseMove("beside")
    \/ Len(history) <= MaxKeyEdits /\ \E b \in {0, 2} : onMouseDown(b, FALSE)
    \/ init2D
    \/ \E t \in Tools : selectTool(t)
    \/ \E c \in Colors : setColor(c)
    \/ Room /\ PointerDown2D
    \/ PointerMove2D
    \/ handleMouseUp
    \/ undo2D
    \/ redo2D

SpecKeys == Init /\ [][NextKeys]_vars

\* Aiming sessions: the 3D builder with the pointer moved over every ray (the
\* sky, ground points, top, bottom and side faces), blocks placed and removed.
AimRayNames == DOMAIN Rays

NextResolve ==
    \/ init3D
    \/ \E ray \in AimRayNames : onMouseMove(ray)
    \/ Room /\ \E b \in {0, 2} : onMouseDown(b, FALSE)

SpecResolve == Init /\ [][NextResolve]_vars

\* Editing sessions.  2D: the draw and erase tools with both colours, strokes by
\* mouse and by touch over every cell of the grid and one position outside it.
\* 3D: blocks placed and removed with the mouse and by touch.
EditTools == {"draw", "erase"}

EditHexes(g) == GridCells(g) \cup {<<-1, 0>>}

NextEdit ==
    \/ init2D
    \/ \E t \in EditTools : selectTool(t)
    \/ \E c \in Colors : setColor(c)
    \/ Room /\ \E hex \in EditHexes(gridSize) : handleMouseDown(0, FALSE, hex)
    \/ \E hex \in EditHexes(gridSize) : handleMouseMove(hex)
    \/ handleMouseUp
    \/ Room /\ \E hex \in EditHexes(gridSize) : handleTouchStart(1, hex)
    \/ \E hex \in EditHexes(gridSize) : handleTouchMove(1, hex, FALSE)
    \/ handleTouchEnd(0)
    \/ init3D
    \/ PointerMove3D
    \/ Room /\ \E b \in {0, 2} : onMouseDown(b, FALSE)
    \/ Room /\ onTouchEnd(1)

SpecEdit == Init /\ [][NextEdit]_vars

\* Fill sessions: the grid is resized in the settings dialog, the fill tool and
\* a colour are selected, and fill clicks run iteration by iteration.  No other
\* handler runs while a floodFill call is in progress.  On a grid with fewer
\* cells than the cap the fill click is on any cell, on a larger grid on the
\* centre cell.
SmallGrid(g) == g * g < FillCap

FillStarts(g) == IF SmallGrid(g) THEN GridCells(g) ELSE {<<g \div 2, g \div 2>>}

FillIdle == fill.pc # "loop"

NextFill ==
    \/ init2D
    \/ FillIdle /\ Len(history) = 1 /\ applySettings(FillGridSize)
    \/ FillIdle /\ selectTool("fill")
    \/ FillIdle /\ \E c \in Colors : setColor(c)
    \/ FillIdle /\ handleMouseUp
    \/ Len(history) <= MaxFillClicks /\ \E hex \in FillStarts(gridSize) : floodFillCall(hex)
    \/ floodFillIteration
    \/ floodFillReturn

SpecFill == Init /\ [][NextFill]_vars

\* The loop runs to its exit once started: the handler runs to completion.
FairSpecFill == SpecFill /\ WF_vars(floodFillIteration) /\ WF_vars(floodFillReturn)

\* Sessions with one fill click.  On a grid with fewer cells than the cap, one
\* stroke is first dragged with the draw tool, the colour being switched on the
\* way, so that the grid is coloured in any way before the fill tool is chosen.
DrawClick ==
    /\ fill.pc = "idle" /\ currentTool = "draw" /\ SmallGrid(gridSize) /\ Len(history) = 1
    /\ \E hex \in GridCells(gridSize) : handleMouseDown(0, FALSE, hex)

DrawDrag ==
    /\ fill.pc = "idle" /\ currentTool = "draw" /\ SmallGrid(gridSize)
    /\ \E hex \in GridCells(gridSize) : handleMouseMove(hex)

NextFillOnce ==
    \/ init2D
    \/ FillIdle /\ Len(history) = 1 /\ applySettings(FillGridSize)
    \/ FillIdle /\ selectTool("fill")
    \/ FillIdle /\ \E c \in Colors : setColor(c)
    \/ FillIdle /\ handleMouseUp
    \/ DrawClick
    \/ DrawDrag
    \/ fill.pc = "idle" /\ \E hex \in FillStarts(gridSize) : floodFillCall(hex)
    \/ floodFillIteration
    \/ floodFillReturn

SpecFillOnce == Init /\ [][NextFillOnce]_vars

FairSpecFillOnce ==
    SpecFillOnce /\ WF_vars(floodFillIteration) /\ WF_vars(floodFillReturn)

\* Painting sessions: the grid is resized, then one stroke is dragged over any
\* cells of the grid while tools and colours are switched (by keyboard or a
\* second pointer), so the tool is applied to every colouring of the grid.
PaintTools == {"draw", "fill"}

NextPaint ==
    \/ init2D
    \/ Len(history) = 1 /\ applySettings(PaintGridSize)
    \/ \E t \in PaintTools : selectTool(t)
    \/ \E c \in Colors : setColor(c)
    \/ Len(history) = 1 /\ gridSize = PaintGridSize
          /\ \E hex \in GridCells(gridSize) : handleMouseDown(0, FALSE, hex)
    \/ gridSize = PaintGridSize /\ \E hex \in GridCells(gridSize) : handleMouseMove(hex)

SpecPaint == Init /\ [][NextPaint]_vars

\* Resizing sessions: the grid is resized in the settings dialog at any time, to
\* any size up to MaxGridSize, between clicks with any tool on any cell of the
\* grid and on two positions outside it, undo, redo and clear.
MaxGridSize == 3
GridSizes == 1..MaxGridSize

ResizeHexes(g) == GridCells(g) \cup {<<-1, 0>>, <<0, g>>}

NextGrid ==
    \/ init2D
    \/ \E g \in GridSizes : applySettings(g)
    \/ \E t \in Tools : selectTool(t)
    \/ Room /\ \E hex \in ResizeHexes(gridSize) : handleMouseDown(0, FALSE, hex)
    \/ handleMouseUp
    \/ undo2D
    \/ redo2D
    \/ Room /\ clearCanvas

SpecGrid == Init /\ [][NextGrid]_vars

\* Animated sessions: blocks are placed and removed with the mouse, undone and
\* redone, while time passes and frames are drawn at any moment in between.
\* requestAnimationFrame keeps calling animate, and time does not stop.
AnimRayNames == {"edge"}
\* A click is offered while the history is short and a batch is free.
AnimRoom == Room /\ \E n \in Batches : Batch(scene, n) = {}

NextAnim ==
    \/ init3D
    \/ \E ray \in AnimRayNames : onMouseMove(ray)
    \/ AnimRoom /\ \E b \in {0, 2} : onMouseDown(b, FALSE)
    \/ undo3D
    \/ redo3D
    \/ timePasses
    \/ animate

SpecAnim == Init /\ [][NextAnim]_vars

FairSpecAnim == SpecAnim /\ WF_vars(timePasses) /\ WF_vars(animate)

\* Colour sessions: any of the first MaxPresets preset colours and the initial
\* colour are picked in any order, from the presets, the recent colours or the
\* colour picker.
PRESET_COLORS ==
    << "#ef4444", "#f97316", "#f59e0b", "#eab308",
       "#84cc16", "#22c55e", "#14b8a6", "#06b6d4",
       "#0ea5e9", "#3b82f6", "#6366f1", "#8b5cf6",
       "#a855f7", "#d946ef", "#ec4899", "#f43f5e",
       "#ffffff", "#e5e5e5", "#a3a3a3", "#737373",
       "#525252", "#404040", "#262626", "#171717" >>

MaxPresets == 8
PickedColors == {PRESET_COLORS[i] : i \in 1..MaxPresets} \cup {DefaultColor}

NextColors ==
    \/ init2D
    \/ \E c \in PickedColors : setColor(c)

SpecColors == Init /\ [][NextColors]_vars

\* The life of the service worker: an installation with any caches left in
\* storage, messages from the pages, activation, and one fetch event at a time
\* with any outcome of the network.
MessageTypes == {"SKIP_WAITING", "PING"}
Statuses == {200, 404}

NextWorker ==
    \/ \E found \in SUBSET (OldCacheNames \cup {CACHE_NAME}), controlled \in BOOLEAN :
          install(found, controlled)
    \/ \E ok \in BOOLEAN : installAddAll(ok)
    \/ installSkipWaiting
    \/ installCatch
    \/ \E type \in MessageTypes : message(type)
    \/ activate
    \/ \E name \in OldCacheNames : activateDelete(name)
    \/ activateClaim
    \/ \E request \in Requests : fetch(request)
    \/ fetchMatch
    \/ \E failed \in BOOLEAN, status \in Statuses : fetchNetwork(failed, status)
    \/ fetchFallback
    \/ openAndPut

SpecWorker == Init /\ [][NextWorker]_vars

\* Conversion sessions: one conversion of the centre of a cell, with any of the
\* cells, hexagon sizes, pan offsets and zoom factors below.
MaxCoord == 3
Coords == (-MaxCoord)..MaxCoord
HexSizes == {DefaultHexSize, 12}
PanOffsets == {Number(0), Ratio(-37, 2), Surd(250, 7, 3)}
Zooms == {Ratio(1, 4), Number(1), Ratio(11, 10), Number(4)}

NextCoords ==
    \/ \E col \in Coords, row \in Coords, hexSize \in HexSizes,
          ox \in PanOffsets, oy \in PanOffsets, zoom \in Zooms :
          hoverCellCentre(col, row, hexSize, [x |-> ox, y |-> oy], zoom)
    \/ \E q \in Coords, r \in Coords : hoverGroundCentre(q, r)

SpecCoords == Init /\ [][NextCoords]_vars

-----------------------------------------------------------------------------
(* Properties *)

Started == app # "none"

\* The cell store of the running application.
Store == IF app = "2d" THEN hexCells ELSE blocks

HistoryLimit == IF app = "2d" THEN maxHistorySteps ELSE HistoryLimit3D

UndoStep == undo2D \/ undo3D
RedoStep == redo2D \/ redo3D

\* A pointer-down edit event: the tool is applied once at the resolved cell.
EditEvent == PointerDown2D \/ TouchStart2D \/ PointerDown3D \/ TouchEnd3D

\* A step in which saveState runs.
Recording ==
    \/ init2D
    \/ init3D
    \/ \E hex \in PointerHexes(gridSize) : app = "2d" /\ BeginStroke(hex)
    \/ clearCanvas /\ MapSize(hexCells) # 0
    \/ app = "3d" /\ EditEvent /\ blocks' # blocks

\* The snapshots a saveState keeps, in their new positions: those up to
\* historyIndex, less the oldest when the list would exceed the limit.
KeptSnapshots ==
    LET kept == SubSeq(history, 1, historyIndex + 1)
    IN IF Len(kept) + 1 > HistoryLimit THEN Tail(kept) ELSE kept

-----------------------------------------------------------------------------
\* C1: in both variants, an undo that takes effect followed immediately by a redo
\* leaves the cell store with exactly the contents it had before the undo.
C1_UndoThenRedoRestores ==
    [][(lastOp = "undo" /\ RedoStep /\ lastOp' = "redo") => Store' = cellsBefore]_vars

\* C2: in both variants, after a session of state-changing edits only, a single
\* undo restores the cell store to its contents just before the most recent edit.
C2_UndoRevertsOneEdit ==
    [][(editsOnly /\ lastOp = "edit" /\ UndoStep /\ lastOp' = "undo")
          => Store' = cellsBefore]_vars

\* C3: in both variants, between events the snapshot at history[historyIndex] has
\* exactly the contents of the current cell store.
C3_CurrentSnapshotIsStore ==
    Started => history[historyIndex + 1] = Store

\* C4: in both variants, a pointer-down edit that does not change the cell store
\* leaves the history list and historyIndex unchanged.
C4_NoOpEditKeepsHistory ==
    [][(EditEvent /\ Store' = Store) => UNCHANGED <<history, historyIndex>>]_vars

\* C5: in both variants, once the initial state is recorded,
\* 0 <= historyIndex < history.length after every saveState, undo and redo.
C5_IndexInRange ==
    Started => 0 <= historyIndex /\ historyIndex < Len(history)

\* C5 witness: a redo has just taken effect in the middle of a list built by
\* several saveStates and undos.
C5_Witness ==
    /\ Started
    /\ lastOp = "redo"
    /\ 0 < historyIndex
    /\ historyIndex < Len(history) - 1

\* C6: in both variants, the history list never holds more than 50 snapshots; a
\* saveState on a full list removes the oldest snapshot and leaves historyIndex at
\* the last position.
C6_HistoryCapped ==
    /\ [](Len(history) <= 50)
    /\ [][(Recording /\ Len(history) = 50 /\ historyIndex = 49)
             => /\ Len(history') = 50
                /\ historyIndex' = Len(history') - 1
                /\ SubSeq(history', 1, 49) = Tail(history)]_vars

\* C6 witness: a full list whose oldest entry is no longer the initial store, so
\* at least one eviction has happened, right after an edit event.
C6_Witness ==
    /\ Len(history) = 50
    /\ historyIndex = 49
    /\ lastOp \in {"edit", "noopEdit"}
    /\ history[1] # IF app = "2d" THEN EmptyMap ELSE StarterLoop(1, EmptyMap, EmptyMap).blocks

\* C7: in both variants, a saveState discards every snapshot after historyIndex
\* before appending, so after it historyIndex is the last position and redo is
\* disabled.
C7_SavePrunesRedoBranch ==
    [][Recording
          => /\ SubSeq(history', 1, Len(history') - 1) = KeptSnapshots
             /\ historyIndex' = Len(history') - 1
             /\ IF app' = "2d"
                THEN ~redoEnabled2D(history', historyIndex')
                ELSE ~redoEnabled3D(history', historyIndex')]_vars

\* C7 witness: the latest saveState discarded at least one redo snapshot.
C7_Witness ==
    /\ Started
    /\ pruned
    /\ lastOp \in {"edit", "noopEdit", "clear"}
    /\ historyIndex = Len(history) - 1

\* C8: in both variants, undo with historyIndex <= 0 and redo with
\* historyIndex >= history.length - 1 change neither the cell store, nor the
\* history list, nor historyIndex.
C8_UndoRedoAtEndsAreNoOps ==
    [][/\ (UndoStep /\ historyIndex <= 0)
             => UNCHANGED <<hexCells, blocks, history, historyIndex>>
       /\ (RedoStep /\ historyIndex >= Len(history) - 1)
             => UNCHANGED <<hexCells, blocks, history, historyIndex>>]_vars

\* C8 witness: an undo was just attempted at the first snapshot of a list that
\* holds later ones.
C8_Witness ==
    /\ Started
    /\ lastOp = "undoNoop"
    /\ historyIndex = 0
    /\ Len(history) > 1

\* C9: in both variants, right after an undo or redo that takes effect the cell
\* store holds exactly the entries of the snapshot at the new historyIndex.
C9_StoreReplacedBySnapshot ==
    lastOp \in {"undo", "redo"} => Store = history[historyIndex + 1]

\* C9 witness: an undo or redo took effect and an entry of the previous store
\* is gone while the store is not empty.
C9_Witness ==
    /\ lastOp \in {"undo", "redo"}
    /\ Store # EmptyMap
    /\ \E k \in DOMAIN cellsBefore : k \notin DOMAIN Store

\* C10: in both variants, a snapshot that stays in the history list keeps its
\* contents across every operation.
C10_SnapshotsImmutable ==
    [][IF Recording
       THEN SubSeq(history', 1, Len(history') - 1) = KeptSnapshots
       ELSE history' = history]_vars

\* C10 witness: after an undo, a new edit was recorded on top of older snapshots
\* that differ from the store and from each other.
C10_Witness ==
    /\ Started
    /\ lastOp = "edit"
    /\ ~editsOnly
    /\ Len(history) >= 3
    /\ history[1] # history[Len(history)]
    /\ history[Len(history)] # Store

-----------------------------------------------------------------------------
\* The store recorded at session start: the blank grid (2D), the nine starter
\* blocks of material 0 (3D).
StarterKeys == {getBlockKey(StarterPositions[i][1], StarterPositions[i][2],
                            StarterPositions[i][3]) : i \in DOMAIN StarterPositions}

InitialStore == IF app = "2d" THEN EmptyMap ELSE [k \in StarterKeys |-> 0]

\* C11: in both variants, initialization records the initial store once (length 1,
\* historyIndex 0, the blank grid or the nine starter blocks); while no snapshot
\* has been evicted that snapshot stays first, undo stops having an effect only
\* at it, and the undo that reaches it leaves the store equal to the initial state.
\* (An undo pressed in the middle of a 2D stroke, followed by more pointer
\* movement, is not a sequence of recorded edits followed by undos.)
C11_UndoReturnsToInitialStore ==
    /\ [][(init2D \/ init3D)
             => /\ Len(history') = 1
                /\ historyIndex' = 0
                /\ history'[1] = InitialStore'
                /\ Store' = InitialStore'
                /\ app' = "3d" => MapSize(blocks') = 9]_vars
    /\ []((Started /\ ~evicted) => history[1] = InitialStore)
    /\ [](lastOp = "undoNoop" => historyIndex = 0)
    /\ []((lastOp = "undo" /\ historyIndex = 0 /\ ~evicted) => Store = InitialStore)

\* C11 witness: 49 edits were recorded after the initial state, none evicted, and
\* undo was repeated down to the first snapshot.
C11_Witness ==
    /\ lastOp = "undo"
    /\ ~evicted
    /\ Len(history) = 50
    /\ historyIndex = 0
    /\ cellsBefore # InitialStore

-----------------------------------------------------------------------------
\* A step of placeBlock, and the key it resolves STATE.hoveredBlock to.
PlaceStep == onMouseDown(0, FALSE) \/ onTouchEnd(1)

PlaceLayer == IF hoveredBlock.y = -1 THEN 0 ELSE hoveredBlock.y

PlaceTarget == getBlockKey(hoveredBlock.q, hoveredBlock.r, PlaceLayer)

\* C12: in 3D, placing a block at a key already in the store returns false and is
\* a no-op: the material at that key is kept, the store is unchanged, and no
\* history entry is added.
C12_PlaceOnOccupiedIsNoOp ==
    [][(PlaceStep /\ hoveredBlock # Null /\ MapHas(blocks, PlaceTarget))
          => /\ ~addBlock(blocks, blockMeshes, hoveredBlock.q, hoveredBlock.r,
                          PlaceLayer, currentMaterial).ok
             /\ blocks' = blocks
             /\ blocks'[PlaceTarget] = blocks[PlaceTarget]
             /\ blockMeshes' = blockMeshes
             /\ history' = history
             /\ historyIndex' = historyIndex]_vars

\* C12 witness: a placement was refused, and the key under the cursor holds a
\* material other than the selected one.
C12_Witness ==
    /\ app = "3d"
    /\ lastOp = "noopEdit"
    /\ cellsBefore = blocks
    /\ hoveredBlock # Null
    /\ MapHas(blocks, PlaceTarget)
    /\ blocks[PlaceTarget] # currentMaterial

-----------------------------------------------------------------------------
\* The cells whose payload differs between two stores.
ChangedCells(before, after, g) ==
    {c \in GridCells(g) : MapGet(before, c) # MapGet(after, c)}

\* The connected component of `start`, under getNeighbors adjacency, among the
\* cells of the grid whose payload in `cells` is `target` (empty is a payload).
RECURSIVE RegionGrow(_, _, _, _, _)
RegionGrow(cells, target, g, frontier, acc) ==
    IF frontier = {} THEN acc
    ELSE LET around == UNION {{getNeighbors(c[1], c[2], g)[i] :
                                  i \in DOMAIN getNeighbors(c[1], c[2], g)} : c \in frontier}
             next == {n \in around : n \notin acc /\ MapGet(cells, n) = target}
         IN RegionGrow(cells, target, g, next, acc \cup next)

Region(cells, start, target, g) ==
    IF InGrid(start, g) /\ MapGet(cells, start) = target
    THEN RegionGrow(cells, target, g, {start}, {start})
    ELSE {}

\* C13: one 2D floodFill call changes at most 1000 cells; started (with a fill
\* colour other than the target) on a connected region of at least 1000 cells
\* holding the target value, it changes exactly 1000 cells of the region to the
\* fill colour and leaves the rest of the region with the target value.
C13_FillStopsAtCap ==
    /\ fill.filled <= FillCap
    /\ fill.pc = "done"
          => LET region == Region(cellsBefore, fill.start, fill.target, gridSize)
                 changed == ChangedCells(cellsBefore, hexCells, gridSize)
             IN /\ Cardinality(changed) <= FillCap
                /\ DOMAIN hexCells \subseteq GridCells(gridSize)
                /\ (Cardinality(region) >= FillCap /\ fill.target # fill.color)
                      => /\ Cardinality(changed) = FillCap
                         /\ changed \subseteq region
                         /\ \A c \in changed : MapGet(hexCells, c) = fill.color
                         /\ \A c \in region \ changed : MapGet(hexCells, c) = fill.target

\* C13 witness: a fill of the empty 32 x 32 grid has returned with 1000 cells
\* filled and coordinates still on its stack.
C13_Witness ==
    /\ fill.pc = "done"
    /\ cellsBefore = EmptyMap
    /\ gridSize * gridSize > FillCap
    /\ fill.filled = FillCap
    /\ fill.stack # <<>>
    /\ MapSize(hexCells) = FillCap

-----------------------------------------------------------------------------
\* A store with the cells of `region` given the payload `color`, others untouched.
Repainted(cells, region, color) ==
    [c \in (DOMAIN cells) \cup region |-> IF c \in region THEN color ELSE cells[c]]

\* C14: when the region is smaller than the cap, a 2D floodFill from a cell of the
\* grid gives the fill colour to exactly the cells of the connected component of
\* the start cell among the cells holding the target value (empty included), and
\* changes no other cell.  Stated of the call the fill tool makes at each cell of
\* the grid, in every store and with every colour the session reaches.
C14_FillPaintsComponent ==
    currentTool = "fill"
       => \A hex \in GridCells(gridSize) :
             LET target == MapGet(hexCells, hex)
                 region == Region(hexCells, hex, target, gridSize)
                 result == floodFill(hexCells, hex[1], hex[2], target, currentColor, gridSize)
             IN Cardinality(region) < FillCap
                   => /\ result = Repainted(hexCells, region, currentColor)
                      /\ ChangedCells(hexCells, result, gridSize) \subseteq region

\* C14 witness: a fill has just recoloured a region of several cells next to
\* cells of another payload that it left alone, on a store with both colours and
\* empty cells.
C14_Witness ==
    /\ currentTool = "fill"
    /\ lastOp = "edit"
    /\ gridSize = PaintGridSize
    /\ MapSize(hexCells) < gridSize * gridSize
    /\ \E c \in DOMAIN hexCells : hexCells[c] = DefaultColor
    /\ Cardinality({c \in DOMAIN hexCells : hexCells[c] = OtherColor}) >= 3
    /\ currentColor = OtherColor

-----------------------------------------------------------------------------
\* The values a cell lookup or a colour argument can take.
Payloads == Colors \cup {Undefined}

\* C15: a 2D floodFill whose target value equals the fill colour changes no cell
\* of the store, whatever the start cell, the value and the store; in particular
\* the fill tool applied to a cell that already holds the current colour leaves
\* the store as it is.
C15_SelfFillIsNoOp ==
    \A hex \in GridCells(gridSize) :
       /\ \A c \in Payloads :
             floodFill(hexCells, hex[1], hex[2], c, c, gridSize) = hexCells
       /\ MapGet(hexCells, hex) = currentColor
             => drawAtPosition(hexCells, hex, "fill", currentColor, gridSize) = hexCells

\* C15 witness: during a stroke with the fill tool the pointer can be on a cell
\* that holds the current colour and has a neighbour of another payload, in a
\* store with both colours and empty cells.
C15_Witness ==
    /\ currentTool = "fill"
    /\ isDrawing
    /\ gridSize = PaintGridSize
    /\ MapSize(hexCells) < gridSize * gridSize
    /\ \E c \in DOMAIN hexCells : hexCells[c] # currentColor
    /\ \E hex \in GridCells(gridSize) :
          /\ MapGet(hexCells, hex) = currentColor
          /\ \E i \in DOMAIN getNeighbors(hex[1], hex[2], gridSize) :
                MapGet(hexCells, getNeighbors(hex[1], hex[2], gridSize)[i]) = Undefined
          /\ drawAtPosition(hexCells, hex, currentTool, currentColor, gridSize) = hexCells

-----------------------------------------------------------------------------
\* A step that adds exactly one snapshot: the list becomes the snapshots kept up
\* to the current index followed by one more, the oldest one dropped when that
\* passes the limit.
OneSnapshotAdded ==
    LET kept == SubSeq(history, 1, historyIndex + 1)
    IN IF Len(kept) < maxHistorySteps
       THEN /\ Len(history') = Len(kept) + 1
            /\ SubSeq(history', 1, Len(kept)) = kept
            /\ historyIndex' = historyIndex + 1
       ELSE /\ Len(history') = maxHistorySteps
            /\ SubSeq(history', 1, maxHistorySteps - 1) = Tail(kept)
            /\ historyIndex' = historyIndex

\* C16: in 2D, one click (mouse or touch) with the fill tool that changes the
\* store adds exactly one snapshot to the history, whether the fill changes one
\* cell or many.
C16_FillClickAddsOneSnapshot ==
    [][((PointerDown2D \/ TouchStart2D) /\ currentTool = "fill" /\ hexCells' # hexCells)
          => OneSnapshotAdded]_vars

\* C16 witness: the only click since init was a fill of the whole blank grid,
\* several cells, and the history holds two snapshots.
C16_Witness ==
    /\ app = "2d"
    /\ currentTool = "fill"
    /\ lastOp = "edit"
    /\ editsOnly
    /\ cellsBefore = EmptyMap
    /\ MapSize(hexCells) = gridSize * gridSize
    /\ gridSize > 1
    /\ Len(history) = 2
    /\ historyIndex = 1

-----------------------------------------------------------------------------
\* The coordinates pushed so far by a floodFill call: the start and, for each
\* cell filled, at most its six neighbours.
PushBound(filled) == 1 + 6 * filled

\* C17: a 2D floodFill call always terminates, and processes (tests and possibly
\* fills) each coordinate at most once during the call, even though a coordinate
\* can be on the work stack several times.  Every call that enters the loop
\* returns; no coordinate gets past the visited check twice; the iterations made
\* and the coordinates still stacked never exceed the coordinates pushed, which
\* the cap and the grid bound.
C17_FillTerminates ==
    /\ (fill.pc = "loop") ~> (fill.pc = "done")
    /\ [](~fill.twice)
    /\ [](/\ fill.tested = fill.visited
          /\ fill.tested \subseteq GridCells(gridSize)
          /\ fill.filled <= Cardinality(fill.tested)
          /\ fill.iterations + Len(fill.stack) <= PushBound(fill.filled)
          /\ fill.filled <= FillCap)

\* C17 witness: a call has returned after filling several cells, testing cells
\* of another payload, and popping coordinates that were already visited.
C17_Witness ==
    /\ fill.pc = "done"
    /\ fill.filled > 1
    /\ Cardinality(fill.tested) > fill.filled
    /\ fill.iterations > Cardinality(fill.tested)
    /\ fill.stack = <<>>

-----------------------------------------------------------------------------
-----------------------------------------------------------------------------
\* C19: coordinate round trip.  In 2D, for every cell, pan offset and zoom,
\* pixelToHex of the screen position of hexToPixel(col, row) is (col, row); in
\* 3D, for every integer (q, r), worldToHex(hexToWorld(q, r)) is (q, r).
C19_RoundTrip ==
    conv.kind # "none" => conv.out = conv.cell

\* C19 witness: the centre of a cell in an odd column with a negative row, drawn
\* zoomed and panned by an offset that is no multiple of the spacing, has been
\* converted back to the cell.
C19_Witness ==
    /\ conv.kind = "2d"
    /\ IsOddCol(conv.cell[1])
    /\ conv.cell[2] < 0
    /\ conv.zoom = Ratio(11, 10)
    /\ conv.offset.y = Surd(250, 7, 3)
    /\ conv.offset.x = Ratio(-37, 2)
    /\ conv.out = conv.cell

-----------------------------------------------------------------------------
\* The six cells around (col, row) in the staggered layout: the cells above and
\* below in the same column, and in each of the columns beside it the two cells
\* at rows row - 1 and row when col is even, row and row + 1 when col is odd.
AdjacentShape(col, row, n) ==
    \/ n[1] = col /\ n[2] \in {row - 1, row + 1}
    \/ /\ n[1] \in {col - 1, col + 1}
       /\ n[2] \in (IF IsOddCol(col) THEN {row, row + 1} ELSE {row - 1, row})

\* C20: in 2D, getNeighbors(col, row) returns at most 6 cells, each inside the
\* grid in both axes, each either (col, row +/- 1) or a cell of column col +/- 1
\* whose row is shifted according to the parity of col; it never returns
\* (col, row) itself nor any duplicate.  Stated for every cell of the grid and
\* of the ring around it, at every grid size the session has.
C20_NeighborsWellFormed ==
    \A col \in (-1)..gridSize, row \in (-1)..gridSize :
       LET ns == getNeighbors(col, row, gridSize)
       IN /\ Len(ns) <= 6
          /\ \A i \in DOMAIN ns :
                /\ InGrid(ns[i], gridSize)
                /\ AdjacentShape(col, row, ns[i])
                /\ ns[i] # <<col, row>>
                /\ \A j \in DOMAIN ns : i # j => ns[i] # ns[j]

\* C20 witness: on the 3 x 3 grid, where the middle cell has all six neighbours
\* and a corner has two, a fill has walked the neighbours of several cells.
C20_Witness ==
    /\ gridSize = PaintGridSize
    /\ Len(getNeighbors(1, 1, gridSize)) = 6
    /\ Len(getNeighbors(0, 0, gridSize)) = 2
    /\ Len(getNeighbors(1, 0, gridSize)) = 5
    /\ currentTool = "fill"
    /\ lastOp = "edit"
    /\ Cardinality(ChangedCells(cellsBefore, hexCells, gridSize)) >= 3

-----------------------------------------------------------------------------
\* The coordinates one step outside the grid on either axis.
OutsideRing(g) == (((-1)..g) \X ((-1)..g)) \ GridCells(g)

\* A 2D pointer event that applies the tool at a coordinate outside the grid.
PointerOutside2D ==
    \E hex \in {h \in PointerHexes(gridSize) : ~InGrid(h, gridSize)} :
       \/ handleMouseDown(0, FALSE, hex)
       \/ handleMouseMove(hex)
       \/ handleTouchStart(1, hex)
       \/ handleTouchMove(1, hex, FALSE)

\* A 3D place or remove event while the ray hits nothing and hoveredBlock is null.
PointerNoHit3D ==
    /\ hoveredBlock = Null
    /\ intersectObjects(mouse, blockMeshes, TRUE) = Null
    /\ \/ \E b \in {0, 2} : onMouseDown(b, FALSE)
       \/ onTouchEnd(1)

\* C21: a pointer event that resolves to no grid cell applies no tool effect.
\* In 2D, with every tool, drawAtPosition at a coordinate outside [0, gridSize)
\* on either axis returns the store as it is, and a mouse-down, mouse-move,
\* touch-start or touch-move at such a coordinate leaves the store unchanged.
\* In 3D, a mouse-down or touch-end while the ray hits nothing and hoveredBlock
\* is null leaves the block store unchanged.
C21_NoTargetNoEffect ==
    /\ [](\A hex \in OutsideRing(gridSize), tool \in Tools :
             drawAtPosition(hexCells, hex, tool, currentColor, gridSize) = hexCells)
    /\ [][PointerOutside2D => hexCells' = hexCells]_vars
    /\ [][PointerNoHit3D => blocks' = blocks /\ blockMeshes' = blockMeshes]_vars

\* C21 witness: a pointer-down has left a non-empty 2D store as it was while the
\* erase tool is active and the stroke is on, the one cell of the grid the
\* pointer can be on being coloured.
C21_Witness ==
    /\ app = "2d"
    /\ lastOp = "noopEdit"
    /\ currentTool = "erase"
    /\ isDrawing
    /\ MapHas(hexCells, <<0, 0>>)
    /\ cellsBefore = hexCells

-----------------------------------------------------------------------------
\* C22: in 3D, pointer-move and touch-move events never change the block store
\* or the history, also while the left button is held (isPlacing true); after
\* init the store changes only on mouse-down, touch-end, undo and redo.
C22_MoveNeverEdits3D ==
    /\ [][(PointerMove3D \/ TouchMove3D)
             => UNCHANGED <<blocks, blockMeshes, history, historyIndex>>]_vars
    /\ [][(app = "3d" /\ blocks' # blocks)
             => (PointerDown3D \/ TouchEnd3D \/ undo3D \/ redo3D)]_vars

\* C22 witness: the left button went down over the sky and is still held, the
\* pointer has moved onto the free ground cell beside the platform, and nothing
\* has been placed or recorded since init.
C22_Witness ==
    /\ app = "3d"
    /\ isPlacing
    /\ mouse = "beside"
    /\ hoveredBlock = [q |-> 2, r |-> 0, y |-> -1]
    /\ ~MapHas(blocks, <<2, 0, 0>>)
    /\ lastOp = "init"
    /\ Len(history) = 1

-----------------------------------------------------------------------------
\* What a move event does to the store and the history when it applies the
\* active tool at `hex`, and when it applies nothing.
MoveApplies(hex) ==
    /\ hexCells' = drawAtPosition(hexCells, hex, currentTool, currentColor, gridSize)
    /\ UNCHANGED <<history, historyIndex>>

MoveIdle == UNCHANGED <<hexCells, history, historyIndex>>

\* C23 as claimed: in 2D, a mouse-move or touch-move event changes the cell
\* store only when isDrawing is true and isPanning is false, in which case it
\* applies the active tool at the pointed cell; with isDrawing false or
\* isPanning true the store and the history are unchanged.
C23_MoveAppliesToolWhileDrawing ==
    [][\A hex \in PointerHexes(gridSize) :
          /\ handleMouseMove(hex)
                => IF isDrawing /\ ~isPanning THEN MoveApplies(hex) ELSE MoveIdle
          /\ \A n \in {1, 2}, scroll \in BOOLEAN :
                handleTouchMove(n, hex, scroll)
                   => IF isDrawing /\ ~isPanning THEN MoveApplies(hex) ELSE MoveIdle]_vars

\* C23 amended: with isDrawing true and isPanning false, a mouse-move and a
\* one-finger touch-move that is not taken as a scroll gesture apply the active
\* tool at the pointed cell, while a touch-move taken as a scroll gesture or
\* made with two fingers changes neither store nor history; with isDrawing
\* false or isPanning true no move changes the store or the history.
C23_MoveAppliesToolUnlessGesture ==
    [][\A hex \in PointerHexes(gridSize) :
          /\ handleMouseMove(hex)
                => IF isDrawing /\ ~isPanning THEN MoveApplies(hex) ELSE MoveIdle
          /\ \A n \in {1, 2}, scroll \in BOOLEAN :
                handleTouchMove(n, hex, scroll)
                   => IF isDrawing /\ ~isPanning /\ n = 1 /\ ~scroll
                      THEN MoveApplies(hex) ELSE MoveIdle]_vars

\* C23 witness: one pointer-down went outside the grid or was undone and redone,
\* and a move of the stroke has since coloured a cell: the store is not empty
\* though the only snapshot recorded since init is of the empty store.
C23_Witness ==
    /\ app = "2d"
    /\ isDrawing /\ ~isPanning
    /\ lastOp = "edit"
    /\ ~editsOnly /\ ~pruned
    /\ Len(history) = 2 /\ historyIndex = 1
    /\ history[2] = EmptyMap
    /\ hexCells # EmptyMap

-----------------------------------------------------------------------------
\* C24: in the 3D builder brushSize stays within [1, 5] whatever sequence of
\* KeyQ (decrease) and KeyE (increase) presses has been made.
C24_BrushSizeInRange ==
    /\ [](brushSize \in 1 .. 5)
    /\ [][/\ onKeyDown("KeyQ", FALSE) => brushSize' = IF brushSize = 1 THEN 1 ELSE brushSize - 1
          /\ onKeyDown("KeyE", FALSE) => brushSize' = IF brushSize = 5 THEN 5 ELSE brushSize + 1
         ]_vars

C24_Witness == app = "3d" /\ brushSize = MaxBrushSize /\ lastOp = "edit"

-----------------------------------------------------------------------------
\* C25: every key present in the cell store has a payload.  In 3D it is an
\* integer material index i with 0 <= i < 12, whichever digit keys and palette
\* buttons selected the material; in 2D it is a non-empty colour value, never
\* undefined nor the empty string.
C25_StoredKeysHavePayload ==
    /\ \A k \in DOMAIN blocks : blocks[k] \in Int /\ 0 <= blocks[k] /\ blocks[k] < 12
    /\ \A k \in DOMAIN hexCells : hexCells[k] # Undefined /\ hexCells[k] # ""

C25_Witness ==
    /\ app = "3d"
    /\ lastOp = "edit"
    /\ \E k \in DOMAIN blocks : blocks[k] = 9

-----------------------------------------------------------------------------
\* The cell the placement resolver derives from the pointer position and the
\* blocks present now.
ResolvedNow == updateRaycast(mouse, blockMeshes)

\* C26: in 3D the cell a place action targets on pointer-down is the cell the
\* placement resolver derives from the pointer position and the blocks present
\* at the moment of the click, also when a remove, an undo or a redo happened
\* since the last pointer-move.
C26_PlaceTargetsCellResolvedAtClick ==
    [][onMouseDown(0, FALSE) => hoveredBlock = ResolvedNow]_vars

-----------------------------------------------------------------------------
\* The angles, in degrees, of the six sector directions, and the unit vector
\* (cos, sin) of each.
SectorAngles == {0, 60, 120, 180, 240, 300}

Cosine(deg) ==
    CASE deg = 0 -> Number(1)
      [] deg \in {60, 300} -> Ratio(1, 2)
      [] deg \in {120, 240} -> Ratio(-1, 2)
      [] deg = 180 -> Number(-1)

Sine(deg) ==
    CASE deg \in {0, 180} -> Number(0)
      [] deg \in {60, 120} -> Over(Sqrt3, Number(2))
      [] deg \in {240, 300} -> Over(Minus(Number(0), Sqrt3), Number(2))

\* The angle of the direction from cell (0, 0) to the cell at axial offset off,
\* as hexToWorld places them: the sector angle whose unit vector is a positive
\* multiple of hexToWorld(off).
WorldAngle(off) ==
    LET v == hexToWorld(off[1], off[2])
    IN CHOOSE deg \in SectorAngles :
          /\ Sign(Minus(Times(v.x, Sine(deg)), Times(v.z, Cosine(deg)))) = 0
          /\ Sign(Plus(Times(v.x, Cosine(deg)), Times(v.z, Sine(deg)))) = 1

\* The world angle of each of the six axial offsets.
WorldAngles == [off \in {NeighborOffsets[i] : i \in 1..6} |-> WorldAngle(off)]

\* The angle between two directions given in degrees, within 0..180.
AngleBetween(a, b) ==
    LET d == (a - b) % 360
    IN IF d > 180 THEN 360 - d ELSE d

SixOffsets == {<<1, 0>>, <<0, 1>>, <<-1, 1>>, <<-1, 0>>, <<0, -1>>, <<1, -1>>}

\* What the ray meets first among the blocks present and the ground.
FirstHit(ray) == intersectObjects(ray, blockMeshes, TRUE)

\* The table index computed for every whole angle from -180 to 180 degrees.
SectorIndexInRange == \A angle \in -180..180 : SectorIndex(SectorDir(angle)) \in 0..5

-----------------------------------------------------------------------------
AbsoluteValue(x) == IF Sign(x) < 0 THEN Minus(Number(0), x) ELSE x

Less(x, y) == Sign(Minus(x, y)) < 0

\* The world point p lies strictly inside the hexagon of cell (q, r), a
\* pointy-top hexagon of radius hexRadius around hexToWorld(q, r):
\* |dx| < sqrt(3)/2 * radius and |dz| < radius - |dx| / sqrt(3).
InsideCell(p, q, r) ==
    LET c == hexToWorld(q, r)
        dx == AbsoluteValue(Minus(p.x, c.x))
        dz == AbsoluteValue(Minus(p.z, c.z))
    IN /\ Less(dx, Times(Over(Sqrt3, Number(2)), Number(hexRadius)))
       /\ Less(dz, Minus(Number(hexRadius), Over(dx, Sqrt3)))

NearCells == (-1..4) \X (-2..2)

\* The hex cell under the world point p.
CellUnder(p) == CHOOSE cell \in NearCells : InsideCell(p, cell[1], cell[2])

\* C28: in 3D a ground hit resolves to the hex cell under the hit point at
\* layer 0, and a hit on a block face whose normal has |y| > 0.5 resolves to the
\* same (q, r) at layer y + 1 for an upward normal and y - 1 for a downward one.
C28_GroundAndStackingTargets ==
    [][(onMouseMove(mouse') /\ FirstHit(mouse') # Null)
       => LET hit == FirstHit(mouse')
          IN IF hit.obj = "ground"
             THEN /\ <<hoveredBlock'.q, hoveredBlock'.r>> = CellUnder(hit.point)
                  /\ PlaceLayer' = 0
             ELSE hit.ny # 0
                  => LET block == blockMeshes[hit.key]
                     IN hoveredBlock' =
                           [q |-> block.q, r |-> block.r,
                            y |-> IF hit.ny > 0 THEN block.y + 1 ELSE block.y - 1]
      ]_vars

-----------------------------------------------------------------------------
\* Every key but `key` has the same presence and the same payload in both maps.
OtherKeysKept(before, after, key) ==
    \A k \in ((DOMAIN before) \cup (DOMAIN after)) \ {key} :
        /\ k \in DOMAIN before
        /\ k \in DOMAIN after
        /\ before[k] = after[k]

\* One application of the current 2D tool at hex: a mouse press or a drag step,
\* a touch or a touch-drag step.
ToolApplication(hex) ==
    \/ handleMouseDown(0, FALSE, hex)
    \/ handleMouseMove(hex)
    \/ handleTouchStart(1, hex)
    \/ handleTouchMove(1, hex, FALSE)

\* The key of the block that a remove at the pointer hits, or Null.
RemoveHit == intersectObjects(mouse, blockMeshes, FALSE)

\* C29: a single draw or erase application in 2D, and a single place or remove
\* in 3D, changes at most the one targeted key: every other key of the cell
\* store keeps its presence and its payload; and draw overwrites a differently
\* coloured cell with the current colour.
C29_SingleEditTouchesOneKey ==
    [][/\ \A hex \in EditHexes(gridSize) :
            (currentTool \in {"draw", "erase"} /\ ToolApplication(hex))
            => /\ OtherKeysKept(hexCells, hexCells', hex)
               /\ (/\ currentTool = "draw"
                   /\ handleMouseDown(0, FALSE, hex) \/ (isDrawing /\ handleMouseMove(hex))
                   /\ MapHas(hexCells, hex)
                   /\ hexCells[hex] # currentColor)
                  => MapGet(hexCells', hex) = currentColor
       /\ PlaceStep
            => IF hoveredBlock = Null
               THEN blocks' = blocks
               ELSE OtherKeysKept(blocks, blocks', PlaceTarget)
       /\ onMouseDown(2, FALSE)
            => IF RemoveHit = Null
               THEN blocks' = blocks
               ELSE OtherKeysKept(blocks, blocks', RemoveHit.key)
      ]_vars

C29_Witness ==
    /\ app = "2d"
    /\ lastOp = "edit"
    /\ \E k \in DOMAIN hexCells :
          /\ MapHas(cellsBefore, k)
          /\ cellsBefore[k] # hexCells[k]
          /\ hexCells[k] = currentColor
    /\ MapSize(hexCells) >= 3

-----------------------------------------------------------------------------
\* C30: in 2D, clearCanvas on a non-empty store empties the store and records
\* one history entry, and an undo immediately after it restores the store to
\* exactly the contents it had just before the clear; clearCanvas on an empty
\* store changes neither the store nor the history.
C30_ClearThenUndoRestores ==
    [][/\ (clearCanvas /\ MapSize(hexCells) > 0)
            => /\ hexCells' = EmptyMap
               /\ historyIndex' = historyIndex + 1
               /\ Len(history') = historyIndex' + 1
       /\ (clearCanvas /\ MapSize(hexCells) = 0)
            => UNCHANGED <<hexCells, history, historyIndex>>
       /\ (lastOp = "clear" /\ undo2D) => hexCells' = cellsBefore
      ]_vars

-----------------------------------------------------------------------------
\* The keys of a store lie in the grid of size g.
KeysInGrid(cells, g) == \A k \in DOMAIN cells : InGrid(k, g)

\* C31 as stated: in 2D, in every reachable state every key of the cell store
\* has 0 <= col < gridSize and 0 <= row < gridSize, whatever draw, erase, fill,
\* undo, redo, clear and applySettings calls came before.
C31_StoreKeysInGrid == app = "2d" => KeysInGrid(hexCells, gridSize)

\* C31, amended: the keys of the cell store and of every history snapshot lie in
\* the grid at the start, and every step that does not lower gridSize (draw,
\* erase, fill, undo, redo, clear, an applySettings that keeps or raises
\* gridSize) keeps them there; so the keys lie in the grid for as long as
\* applySettings has not lowered gridSize.
HistoryKeysInGrid(h, g) == \A i \in 1..Len(h) : KeysInGrid(h[i], g)

C31_KeysInGridUnlessShrunk ==
    /\ KeysInGrid(hexCells, gridSize) /\ HistoryKeysInGrid(history, gridSize)
    /\ [][(/\ KeysInGrid(hexCells, gridSize)
           /\ HistoryKeysInGrid(history, gridSize)
           /\ gridSize' >= gridSize)
            => /\ KeysInGrid(hexCells', gridSize')
               /\ HistoryKeysInGrid(history', gridSize')
         ]_vars

\* The grid has been enlarged and a cell of the added column is in the store
\* and in a snapshot.
C31_Witness ==
    /\ app = "2d"
    /\ gridSize > InitGridSize
    /\ MapHas(hexCells, <<InitGridSize, 0>>)
    /\ \E i \in 1..Len(history) : MapHas(history[i], <<InitGridSize, 0>>)
    /\ KeysInGrid(hexCells, gridSize)

-----------------------------------------------------------------------------
\* b is one of the cells getNeighbors returns for a.
IsNeighbor(a, b, g) ==
    LET ns == getNeighbors(a[1], a[2], g)
    IN \E i \in DOMAIN ns : ns[i] = b

\* C32: the 2D neighbour relation is symmetric for both column parities: for
\* all cells a and b of the grid, b is in getNeighbors(a) exactly when a is in
\* getNeighbors(b).  Stated at every grid size the session has.
C32_NeighborsSymmetric ==
    \A a \in GridCells(gridSize), b \in GridCells(gridSize) :
        IsNeighbor(a, b, gridSize) <=> IsNeighbor(b, a, gridSize)

\* C32 witness: on the largest grid a cell of an even column and a cell of an
\* odd column are neighbours of each other, as are two cells of one column, and
\* a fill has spread through neighbours.
C32_Witness ==
    /\ gridSize = MaxGridSize
    /\ IsNeighbor(<<0, 1>>, <<1, 0>>, gridSize) /\ IsNeighbor(<<1, 0>>, <<0, 1>>, gridSize)
    /\ IsNeighbor(<<1, 1>>, <<2, 1>>, gridSize) /\ IsNeighbor(<<2, 1>>, <<1, 1>>, gridSize)
    /\ IsNeighbor(<<1, 0>>, <<1, 1>>, gridSize) /\ IsNeighbor(<<1, 1>>, <<1, 0>>, gridSize)
    /\ ~IsNeighbor(<<0, 0>>, <<1, 1>>, gridSize)
    /\ currentTool = "fill"
    /\ lastOp = "edit"
    /\ MapSize(hexCells) >= 3

-----------------------------------------------------------------------------
\* C33: in 3D, after every addBlock, removeBlock and loadState (hence after any
\* sequence of place, remove, undo, redo) the render-handle map blockMeshes has
\* exactly the same key set as the block store STATE.blocks, and the handle of
\* a key is the mesh made for that key and its material.
C33_MeshKeysMatchStore ==
    /\ DOMAIN blockMeshes = DOMAIN blocks
    /\ \A key \in DOMAIN blockMeshes :
          /\ getBlockKey(blockMeshes[key].q, blockMeshes[key].r, blockMeshes[key].y) = key
          /\ blockMeshes[key].materialIndex = blocks[key]

\* C33 witness: a block beyond the starter blocks is in both maps and the last
\* operation was an undo or a redo that rebuilt both maps.
C33_Witness ==
    /\ app = "3d"
    /\ lastOp \in {"undo", "redo"}
    /\ blocks # cellsBefore
    /\ \E key \in DOMAIN blockMeshes : key \notin StarterKeys

-----------------------------------------------------------------------------

\* C34: in 3D, under any interleaving of place, remove, undo and redo with
\* animation frames, the mesh of a removed block is eventually taken out of the
\* scene (the meshes removed at one moment lead to none of them being there), and in
\* every state with no pending animation the block meshes in the scene are
\* exactly one per key of the block store.
C34_RemovedMeshLeavesScene ==
    /\ [](animations = {} => scene = {Mesh(key, FALSE) : key \in DOMAIN blocks})
    /\ \A n \in Batches : (Batch(scene, n) # {}) ~> (Batch(scene, n) = {})

\* C34 witness: a block was placed and then removed, every animation has ended,
\* and the scene holds the meshes of the blocks left and no other.
C34_Witness ==
    /\ app = "3d"
    /\ animations = {}
    /\ Len(history) = MaxSnapshots
    /\ DOMAIN history[1] \subseteq DOMAIN history[2]
    /\ DOMAIN history[2] # DOMAIN history[1]
    /\ history[3] = history[1]
    /\ blocks = history[3]
    /\ scene = MeshesOf(blockMeshes)

-----------------------------------------------------------------------------
\* C39: in 2D, after any sequence of setColor calls, recentColors holds at most
\* 8 colours, has no duplicates, and its first element is the colour most
\* recently set, which is STATE.currentColor.
C39_RecentColorsBounded ==
    app = "2d" =>
        /\ Len(recentColors) <= 8
        /\ \A i \in DOMAIN recentColors, j \in DOMAIN recentColors :
              i # j => recentColors[i] # recentColors[j]
        /\ Len(recentColors) >= 1
        /\ recentColors[1] = currentColor

\* C39 witness: eight colours are listed and the initial colour has dropped off
\* the end.
C39_Witness ==
    /\ app = "2d"
    /\ Len(recentColors) = 8
    /\ \A i \in DOMAIN recentColors : recentColors[i] # DefaultColor
    /\ recentColors[1] = PRESET_COLORS[1]
    /\ recentColors[8] = PRESET_COLORS[2]

\* C35: once the install step has completed (the promise given to waitUntil has
\* settled and the worker can be activated), every entry of ASSETS_TO_CACHE is in
\* the cache named CACHE_NAME.
C35_InstalledCacheHasAssets ==
    worker \in {"installed", "activating", "activated"}
        => (CACHE_NAME \in DOMAIN caches /\ Assets \subseteq caches[CACHE_NAME])

\* C36: the fetch handler starts and performs a cache.put only for a same-origin
\* GET request that had no cached match and got a response of status 200; an
\* event the handler passes on changes neither the cache nor the pending puts;
\* while the worker is active the cache changes only when a put is performed;
\* and an event with a cached match is answered with the cached response
\* without the network being contacted.
C36_FetchCachesOnlySameOriginGetMisses ==
    [][ /\ \A p \in (puts' \ puts) \cup (puts \ puts') :
              /\ p.request.method = "GET"
              /\ SameOrigin(p.request.url)
              /\ ~p.hadMatch
              /\ p.status = 200
        /\ (worker = "activated" /\ caches' # caches) => puts' \subseteq puts /\ puts' # puts
        /\ (event' # event /\ event'.stage = "passed") => (caches' = caches /\ puts' = puts)
        /\ (event' # event /\ event'.response.status # 200) => (caches' = caches /\ puts' = puts)
        /\ (event'.stage = "done" /\ event'.hadMatch)
              => /\ event'.response = Response("cache", event'.request.url, 200)
                 /\ event'.network = "none"
      ]_vars

\* C37: when a same-origin GET request had no cached match and the network
\* fetch failed, the handler answers a navigation request with the cached
\* './index.html' response and any other request with the empty response of
\* status 408; in every case it answers with a response.
C37_OfflineFallbackAnswers ==
    (event.stage = "done" /\ event.network = "failed" /\ SameOrigin(event.request.url))
        => /\ event.response # NoResponse
           /\ event.response = IF event.request.mode = "navigate"
                                THEN Response("cache", resolve("./index.html"), 200)
                                ELSE OfflineResponse

\* C38: once the activate step has completed, cache storage holds the cache
\* named CACHE_NAME and no other.
C38_OnlyCurrentCacheAfterActivate ==
    worker = "activated" => DOMAIN caches = {CACHE_NAME}

\* C38 witness: the worker is active after an activation that found the caches
\* of both earlier versions and deleted them.
C38_Witness ==
    /\ worker = "activated"
    /\ cacheNames = OldCacheNames
    /\ DOMAIN caches = {CACHE_NAME}

====
